---- MODULE Spec2Model ----
(***************************************************************************)
(* A model of the upaho MQTT client of core/RP2350 (client.py, mqtt5.py,   *)
(* message.py, enums.py): the connection state, the message-id generator,  *)
(* the outbound inflight table with its QoS 2 tracking, the inbound QoS 2  *)
(* table, the subscription registry, the keepalive timer, and one action   *)
(* per public call (connect, reconnect, disconnect, publish, subscribe,    *)
(* unsubscribe, message_callback_add/remove, loop).                        *)
(*                                                                         *)
(* The socket and the broker are the environment: every send may succeed   *)
(* or raise, every read may give a decoded packet or None (peer closed,    *)
(* time-out, undecodable or unknown packet: read_packet_from_socket maps   *)
(* all of them to None), and the broker may send any packet at any time.   *)
(* The callbacks on_connect, on_disconnect, on_publish, on_subscribe and   *)
(* on_unsubscribe are taken to be set and not to raise; each call site is  *)
(* recorded as an event.  socket.close() is taken not to raise.            *)
(*                                                                         *)
(* lastOp, ret and out are history variables: the last call made, what it  *)
(* returned, and the sends, receptions and callbacks it performed, in      *)
(* order.  allocs counts the message ids drawn, to bound the behaviours;   *)
(* awaiting holds, per message id, the last inbound QoS 2 PUBLISH read for *)
(* which no PUBREL has been read since.                                    *)
(*                                                                         *)
(* The helper functions of the client and the codecs (properties.py,       *)
(* packets.py) are operators; each has a specification of its own that     *)
(* draws the arguments of a call (args) and applies the function (ret).    *)
(***************************************************************************)
EXTENDS Integers, Sequences, FiniteSets, TLC

VARIABLES
    protocol,               \* Client._protocol
    ssl_context,            \* Client._ssl_context is not None
    on_message,             \* Client.on_message is set
    host,                   \* Client._host ("none" for None)
    keepalive,              \* Client._keepalive (seconds)
    sock,                   \* Client._sock: "none" or "open"
    connected,              \* Client._connected
    last_mid,               \* Client._last_mid
    infos,                  \* the MQTTMessageInfo objects registered by publish()
    inflight,               \* Client._inflight_messages: mid -> index in infos
    qos2_pubrec_received,   \* Client._qos2_pubrec_received: mid -> index in infos
    qos2_pubrel_sent,       \* Client._qos2_pubrel_sent: set of mids
    in_packet,              \* Client._in_packet: mid -> MQTTMessage
    subscriptions,          \* Client._subscriptions: filter -> qos
    message_callbacks,      \* Client._message_callbacks: patterns, in insertion order
    ping_pending,           \* Client._ping_pending
    last_recv,              \* Client._last_recv (clock ticks)
    now,                    \* time.ticks_ms() (clock ticks)
    allocs,                 \* history: message ids drawn so far
    awaiting,               \* history: mid -> the last QoS 2 PUBLISH read, until its PUBREL
    args,                   \* history: the arguments of the last call of a helper function
    lastOp,                 \* history: the last call
    ret,                    \* history: what the last call returned
    out                     \* history: events of the last call, in order

vars ==
    <<protocol, ssl_context, on_message, host, keepalive, sock, connected,
      last_mid, infos, inflight, qos2_pubrec_received, qos2_pubrel_sent,
      in_packet, subscriptions, message_callbacks, ping_pending, last_recv,
      now, allocs, awaiting, args, lastOp, ret, out>>

(***************************************************************************)
(* Bounds of the model.                                                    *)
(***************************************************************************)
\* message ids drawn in one behaviour
MaxAlloc ==
    2

\* clock ticks in one behaviour
MaxNow ==
    3

\* milliseconds per clock tick
TickMs ==
    500

\* levels of a topic filter
MaxLevels ==
    3

\* distance of the integers encoded from a power of 128
MaxDelta ==
    8

(***************************************************************************)
(* Program constants.                                                      *)
(***************************************************************************)
MQTTv311 ==
    4

MQTTv5 ==
    5

SUCCESS ==
    0

NORMAL_DISCONNECTION ==
    0

UNSPECIFIED_ERROR ==
    128

PROTOCOL_ERROR ==
    130

NOT_AUTHORIZED ==
    135

KEEPALIVE_TIMEOUT ==
    141

NETWORK_ERROR ==
    255

RC_QUEUED ==
    0

RC_PUBLISHED ==
    1

RC_CONFIRMED ==
    2

\* the modulus of Client._get_next_mid
MID_MODULUS ==
    65535

\* max_retries of Client.connect
max_retries ==
    3

\* Python's None where a message id is returned
NoMid ==
    -1

(***************************************************************************)
(* Values.                                                                 *)
(***************************************************************************)
\* topics and filters are strings: sequences of one-character strings
RxMessages ==
    {[topic |-> <<"a">>, payload |-> "x"], [topic |-> <<"a", "/", "b">>, payload |-> "y"]}

Filters ==
    {<<"a">>, <<"a", "/", "#">>}

\* the message ids the broker may name in an acknowledgement or a PUBLISH
RxMids ==
    {1, MID_MODULUS}

\* the keepalive arguments of connect(), and the CONNACK's Server Keep Alive
\* property (0: the property is absent)
KeepAlives ==
    {0, 1}

ServerKeepAlives ==
    {0, 2}

\* CONNACK reason codes the broker may answer
ConnackCodes ==
    {SUCCESS, NOT_AUTHORIZED}

EmptyMap ==
    [m \in {} |-> 0]

\* a dict assignment that keeps the value of a key already present
MapPutIfAbsent(f, k, v) ==
    [m \in (DOMAIN f) \cup {k} |-> IF m \in DOMAIN f THEN f[m] ELSE v]

\* d[k] = v
MapPut(f, k, v) ==
    [m \in (DOMAIN f) \cup {k} |-> IF m = k THEN v ELSE f[m]]

MapPop(f, k) ==
    [m \in (DOMAIN f) \ {k} |-> f[m]]

\* a decoded packet (packets.py): the fields the client reads
\* (server_keep_alive: the CONNACK's Server Keep Alive property, 0 when absent)
Packet(type, mid, qos, topic, payload, rc) ==
    [type |-> type, mid |-> mid, qos |-> qos, topic |-> topic,
     payload |-> payload, rc |-> rc, server_keep_alive |-> 0, body |-> <<>>]

AckPacket(type, mid) ==
    Packet(type, mid, 0, <<>>, "", SUCCESS)

ConnackPacket(rc, ska) ==
    [AckPacket("CONNACK", 0) EXCEPT !.rc = rc, !.server_keep_alive = ska]

\* what read_packet_from_socket returns when it returns None
NonePacket ==
    AckPacket("None", 0)

\* no data to read: the poll of loop() timed out
Idle ==
    AckPacket("Idle", 0)

(***************************************************************************)
(* What arrives on the socket (mqtt5.py 17-112).  A read fails when recv   *)
(* returns nothing or raises ("closed": the peer closed the connection,    *)
(* before or in the middle of a packet) and when unpack raises on a        *)
(* malformed or truncated body ("malformed"); a frame is a complete        *)
(* packet, of a type decode_packet_data knows or not.  Frames are written  *)
(* as the packets they decode to, but for DISCONNECT, whose frame carries  *)
(* the bytes of its body.                                                  *)
(***************************************************************************)
ReadFailures ==
    {"closed", "malformed"}

\* packet types decode_packet_data has no branch for: AUTH, and one of the
\* types a client sends
UnhandledTypes ==
    {"AUTH", "PINGREQ"}

DecodedTypes ==
    {"CONNACK", "PUBLISH", "PUBACK", "PUBREC", "PUBREL", "PUBCOMP", "SUBACK",
     "UNSUBACK", "PINGRESP", "DISCONNECT"}

Wire(kind) ==
    AckPacket(kind, 0)

Closed ==
    Wire("closed")

DisconnectFrame(body) ==
    [AckPacket("DISCONNECT", 0) EXCEPT !.body = body]

\* DisconnectPacket.unpack leaving the reason code at its default
DisconnectUnpackDefault(version, w) ==
    [w EXCEPT !.rc = NORMAL_DISCONNECTION]

\* DisconnectPacket.unpack (packets.py 478-493)
DisconnectUnpack(version, w) ==
    [w EXCEPT !.rc = IF version = MQTTv311 THEN NORMAL_DISCONNECTION
                     ELSE IF Len(w.body) > 0 THEN w.body[1]
                     ELSE NORMAL_DISCONNECTION]

decode_packet_data(version, w) ==
    IF w.type = "DISCONNECT" THEN DisconnectUnpack(version, w)
    ELSE IF w.type \in DecodedTypes THEN w
    ELSE NonePacket

read_packet_from_socket(version, w) ==
    IF w.type \in ReadFailures THEN NonePacket ELSE decode_packet_data(version, w)

\* MQTTMessage (message.py): what _handle_publish copies from the packet
Message(pkt) ==
    [mid |-> pkt.mid, topic |-> pkt.topic, payload |-> pkt.payload, qos |-> pkt.qos]

\* MQTTMessageInfo (message.py); qos is history: the qos of the publish() call
Info(mid, rc, published, qos) ==
    [mid |-> mid, rc |-> rc, published |-> published, qos |-> qos]

\* MQTTMessageInfo._set_published
SetPublished(info) ==
    [info EXCEPT !.published = TRUE, !.rc = RC_PUBLISHED]

\* MQTTMessageInfo._set_confirmed
SetConfirmed(info) ==
    [info EXCEPT !.rc = RC_CONFIRMED]

(***************************************************************************)
(* Events of a call: a packet handed to send_packet_to_socket (ok: the     *)
(* send did not raise), a packet read, a callback invoked.                 *)
(***************************************************************************)
Event(ev, pkt, mid, rc, ok, topic, payload) ==
    [ev |-> ev, pkt |-> pkt, mid |-> mid, rc |-> rc, ok |-> ok,
     topic |-> topic, payload |-> payload, pattern |-> <<>>, wire |-> "",
     body |-> <<>>]

Sent(pkt, mid, ok) ==
    Event("send", pkt, mid, 0, ok, <<>>, "")

\* rc: the reason code of the packet, of a PUBLISH its qos; wire and body:
\* the type of the frame it was decoded from and the bytes of its body
Received(pkt) ==
    [Event("recv", pkt.type, pkt.mid, IF pkt.type = "PUBLISH" THEN pkt.qos ELSE pkt.rc,
           TRUE, pkt.topic, pkt.payload)
        EXCEPT !.wire = pkt.type, !.body = pkt.body]

\* read_packet_from_socket returned None; wire: the failure, or the type of
\* the frame that was not decoded
ReceivedNone(w) ==
    [Event("recv", "None", 0, 0, FALSE, <<>>, "") EXCEPT !.wire = w.type]

\* the socket-connect loop of connect(): n attempts made, the last one ok or not
SocketConnect(n, ok) ==
    Event("socket", "connect", n, 0, ok, <<>>, "")

SentPublish(mid, qos, ok, topic, payload) ==
    Event("send", "PUBLISH", mid, qos, ok, topic, payload)

Called(cb, mid, rc) ==
    Event("call", cb, mid, rc, TRUE, <<>>, "")

\* a message handler invoked: by is "on_message" or "callback"
Delivered(by, pattern, msg) ==
    [ev |-> "deliver", pkt |-> by, mid |-> msg.mid, rc |-> msg.qos, ok |-> TRUE,
     topic |-> msg.topic, payload |-> msg.payload, pattern |-> pattern,
     wire |-> "", body |-> <<>>]

\* what a call returned: a reason code and a mid (connect, disconnect, loop,
\* subscribe, unsubscribe), or an MQTTMessageInfo (publish: mid, rc, published,
\* and h, its index in infos when it was registered, else 0); exc: it raised
Returned(rc, mid) ==
    [rc |-> rc, mid |-> mid, published |-> FALSE, h |-> 0, exc |-> FALSE]

ReturnedInfo(info, h) ==
    [rc |-> info.rc, mid |-> info.mid, published |-> info.published, h |-> h,
     exc |-> FALSE]

Raised ==
    [rc |-> 0, mid |-> NoMid, published |-> FALSE, h |-> 0, exc |-> TRUE]

(***************************************************************************)
(* Client._topic_matches (client.py 1030-1055).                            *)
(***************************************************************************)
RECURSIVE SplitFrom(_, _, _)
\* str.split('/'): the segments of s, cur being the segment in progress
SplitFrom(s, cur, acc) ==
    IF s = <<>> THEN Append(acc, cur)
    ELSE IF Head(s) = "/" THEN SplitFrom(Tail(s), <<>>, Append(acc, cur))
    ELSE SplitFrom(Tail(s), Append(cur, Head(s)), acc)

Split(s) ==
    SplitFrom(s, <<>>, <<>>)

RECURSIVE MatchFromPrefix(_, _, _, _)
\* _topic_matches returning True as soon as the pattern is used up
MatchFromPrefix(pattern_parts, topic_parts, pi, ti) ==
    IF pi <= Len(pattern_parts) /\ ti <= Len(topic_parts)
    THEN IF pattern_parts[pi] = <<"#">> THEN TRUE
         ELSE IF pattern_parts[pi] = <<"+">>
              THEN MatchFromPrefix(pattern_parts, topic_parts, pi + 1, ti + 1)
         ELSE IF pattern_parts[pi] = topic_parts[ti]
              THEN MatchFromPrefix(pattern_parts, topic_parts, pi + 1, ti + 1)
         ELSE FALSE
    ELSE pi = Len(pattern_parts) + 1

RECURSIVE MatchFrom(_, _, _, _)
\* the while loop of _topic_matches and the return that follows it
MatchFrom(pattern_parts, topic_parts, pi, ti) ==
    IF pi <= Len(pattern_parts) /\ ti <= Len(topic_parts)
    THEN IF pattern_parts[pi] = <<"#">> THEN TRUE
         ELSE IF pattern_parts[pi] = <<"+">>
              THEN MatchFrom(pattern_parts, topic_parts, pi + 1, ti + 1)
         ELSE IF pattern_parts[pi] = topic_parts[ti]
              THEN MatchFrom(pattern_parts, topic_parts, pi + 1, ti + 1)
         ELSE FALSE
    ELSE pi = Len(pattern_parts) + 1 /\ ti = Len(topic_parts) + 1

TopicMatches(pattern, topic) ==
    MatchFrom(Split(pattern), Split(topic), 1, 1)

(***************************************************************************)
(* Client._get_next_mid (client.py 1092-1095).                             *)
(***************************************************************************)
\* a 16-bit counter that wraps to 0
NextMidModulo(mid) ==
    (mid + 1) % (MID_MODULUS + 1)

NextMid(mid) ==
    (mid % MID_MODULUS) + 1

(***************************************************************************)
(* The handler of an inbound message (client.py 909-920 and 956-966): the  *)
(* callback of the first registered pattern that matches the topic, else   *)
(* on_message if set, else none.                                           *)
(***************************************************************************)
\* _topic_matches on the filters and topics in use
Matching ==
    [pattern \in Filters, topic \in {m.topic : m \in RxMessages} |->
        TopicMatches(pattern, topic)]

MatchingCallbacks(topic) ==
    {i \in 1..Len(message_callbacks) : Matching[message_callbacks[i], topic]}

FirstMatch(topic) ==
    CHOOSE i \in MatchingCallbacks(topic) : \A j \in MatchingCallbacks(topic) : i <= j

\* a dispatch that drops the message whose topic matches no subscribed filter
DeliverSubscribed(msg) ==
    IF \A f \in DOMAIN subscriptions : ~Matching[f, msg.topic]
    THEN <<>>
    ELSE IF MatchingCallbacks(msg.topic) /= {}
    THEN <<Delivered("callback", message_callbacks[FirstMatch(msg.topic)], msg)>>
    ELSE IF on_message THEN <<Delivered("on_message", <<>>, msg)>>
    ELSE <<>>

Deliver(msg) ==
    IF MatchingCallbacks(msg.topic) /= {}
    THEN <<Delivered("callback", message_callbacks[FirstMatch(msg.topic)], msg)>>
    ELSE IF on_message THEN <<Delivered("on_message", <<>>, msg)>>
    ELSE <<>>

(***************************************************************************)
(* Client.__init__ (client.py 86-170).  protocol, tls_set() and on_message *)
(* are the configuration, chosen before the first call.  The generator     *)
(* either starts at 0, or the client has been in use before: it has drawn  *)
(* MID_MODULUS - 1 ids (the next two wrap), with nothing pending or with   *)
(* the QoS 1 publish that drew id 1 still unacknowledged.                  *)
(***************************************************************************)
Fresh ==
    /\ last_mid = 0
    /\ infos = <<>>
    /\ inflight = EmptyMap

UsedBefore ==
    /\ last_mid = MID_MODULUS - 1
    /\ \/ infos = <<>> /\ inflight = EmptyMap
       \/ infos = <<Info(1, RC_QUEUED, FALSE, 1)>> /\ inflight = MapPut(EmptyMap, 1, 1)

InitClient ==
    /\ protocol \in {MQTTv311, MQTTv5}
    /\ ssl_context \in BOOLEAN
    /\ on_message \in BOOLEAN
    /\ host = "none"
    /\ keepalive = 60
    /\ sock = "none"
    /\ connected = FALSE
    /\ Fresh \/ UsedBefore
    /\ qos2_pubrec_received = EmptyMap
    /\ qos2_pubrel_sent = {}
    /\ in_packet = EmptyMap
    /\ subscriptions = EmptyMap
    /\ message_callbacks = <<>>
    /\ ping_pending = FALSE
    /\ last_recv = 0
    /\ now = 0
    /\ allocs = 0
    /\ awaiting = EmptyMap
    /\ lastOp = "init"
    /\ ret = Returned(SUCCESS, NoMid)
    /\ out = <<>>

Init ==
    InitClient /\ args = <<>>

\* the history variables of a step
Ghost(op, r, events) ==
    /\ args' = <<>>
    /\ lastOp' = op
    /\ ret' = r
    /\ out' = events

config ==
    <<protocol, ssl_context, on_message>>

tables ==
    <<infos, inflight, qos2_pubrec_received, qos2_pubrel_sent, in_packet>>

(***************************************************************************)
(* Client.connect (client.py 277-464).  e is what the environment does:    *)
(* dns (getaddrinfo succeeds), okAttempt (the socket-connect attempt that  *)
(* succeeds, 0 for none of max_retries), tls (wrap_socket succeeds),       *)
(* sendOk (the CONNECT send does not raise), reply (the packet read).      *)
(* conn0 and sock0 are _connected and _sock when connect() is entered.     *)
(***************************************************************************)
\* a failure path of connect() that leaves the client connected
ConnectFailedConnected(conn0, sockAfter, ka, rc, events) ==
    [connected |-> TRUE, sock |-> sockAfter, keepalive |-> ka,
     last_recv |-> last_recv, rc |-> rc,
     ev |-> events \o <<Called("on_connect", 0, rc)>>]

\* a failure path of connect() that reports PROTOCOL_ERROR to on_connect
ConnectFailedAsProtocolError(conn0, sockAfter, ka, rc, events) ==
    [connected |-> conn0, sock |-> sockAfter, keepalive |-> ka,
     last_recv |-> last_recv, rc |-> rc,
     ev |-> events \o <<Called("on_connect", 0, PROTOCOL_ERROR)>>]

ConnectFailed(conn0, sockAfter, ka, rc, events) ==
    [connected |-> conn0, sock |-> sockAfter, keepalive |-> ka,
     last_recv |-> last_recv, rc |-> rc,
     ev |-> events \o <<Called("on_connect", 0, rc)>>]

\* client.py 448-464, with _process_connack_properties (531-537)
ConnectSucceeded(ka, reply, events) ==
    [connected |-> TRUE, sock |-> "open",
     keepalive |-> IF protocol = MQTTv5 /\ reply.server_keep_alive /= 0
                   THEN reply.server_keep_alive ELSE ka,
     last_recv |-> now, rc |-> SUCCESS,
     ev |-> events \o <<Called("on_connect", 0, reply.rc)>>]

ConnectOutcome(conn0, sock0, ka, e) ==
    LET tried == <<SocketConnect(e.okAttempt, TRUE)>>
        sent == tried \o <<Sent("CONNECT", 0, TRUE)>>
    IN  IF ~e.dns
        THEN ConnectFailed(conn0, sock0, ka, NETWORK_ERROR, <<>>)
        ELSE IF e.okAttempt = 0
        THEN ConnectFailed(conn0, "none", ka, NETWORK_ERROR,
                           <<SocketConnect(max_retries, FALSE)>>)
        ELSE IF ssl_context /\ ~e.tls
        THEN ConnectFailed(conn0, "none", ka, UNSPECIFIED_ERROR, tried)
        ELSE IF ~e.sendOk
        THEN ConnectFailed(conn0, "none", ka, NETWORK_ERROR,
                           tried \o <<Sent("CONNECT", 0, FALSE)>>)
        ELSE IF read_packet_from_socket(protocol, e.reply) = NonePacket
        THEN ConnectFailed(conn0, "none", ka, PROTOCOL_ERROR,
                           sent \o <<ReceivedNone(e.reply)>>)
        ELSE IF e.reply.type /= "CONNACK"
        THEN ConnectFailed(conn0, "none", ka, PROTOCOL_ERROR,
                           sent \o <<Received(e.reply)>>)
        ELSE IF e.reply.rc /= SUCCESS
        THEN ConnectFailed(conn0, "none", ka, e.reply.rc,
                           sent \o <<Received(e.reply)>>)
        ELSE ConnectSucceeded(ka, e.reply, sent \o <<Received(e.reply)>>)

ConnectReplies ==
    {ConnackPacket(rc, ska) : rc \in ConnackCodes, ska \in ServerKeepAlives}
        \cup {Wire(f) : f \in ReadFailures} \cup {AckPacket("PINGRESP", 0)}

\* what follows the step that fails is never asked of the environment
ConnectEnv ==
    {e \in [dns : BOOLEAN, okAttempt : {0, 1, max_retries}, tls : BOOLEAN,
            sendOk : BOOLEAN, reply : ConnectReplies] :
        /\ ~e.dns => e.okAttempt = 0
        /\ e.okAttempt = 0 => e.tls
        /\ ~e.tls => e.sendOk
        /\ ~e.sendOk => e.reply = Closed}

\* the network works and the broker answers CONNECT with a CONNACK that
\* carries no Server Keep Alive
ConnectAnswered ==
    {e \in ConnectEnv : /\ e.okAttempt = 1 /\ e.tls /\ e.sendOk
                        /\ e.reply.type = "CONNACK" /\ e.reply.server_keep_alive = 0}

ConnectFrom(op, conn0, sock0, pre, ka, e) ==
    LET r == ConnectOutcome(conn0, sock0, ka, e)
    IN  /\ host' = "h"
        /\ keepalive' = r.keepalive
        /\ sock' = r.sock
        /\ connected' = r.connected
        /\ last_recv' = r.last_recv
        /\ Ghost(op, Returned(r.rc, NoMid), pre \o r.ev)
        /\ UNCHANGED <<config, last_mid, tables, subscriptions, message_callbacks,
                       ping_pending, now, allocs, awaiting>>

Connect(KA, E) ==
    \E ka \in KA, e \in E :
        ConnectFrom("connect", connected, sock, <<>>, ka, e)

(***************************************************************************)
(* Client.disconnect (client.py 488-529); ok: the DISCONNECT send does not *)
(* raise.  A send on a socket that is None always raises.                  *)
(***************************************************************************)
DisconnectEvents(ok) ==
    <<Sent("DISCONNECT", 0, ok /\ sock = "open"),
      Called("on_disconnect", 0, NORMAL_DISCONNECTION)>>

\* disconnect() without the check of _connected
DisconnectAlways ==
    \E ok \in BOOLEAN :
        /\ sock' = "none"
        /\ connected' = FALSE
        /\ Ghost("disconnect", Returned(SUCCESS, NoMid), DisconnectEvents(ok))
        /\ UNCHANGED <<config, host, keepalive, last_mid, tables, subscriptions,
                       message_callbacks, ping_pending, last_recv, now, allocs, awaiting>>

Disconnect ==
    \E ok \in BOOLEAN :
        IF ~connected
        THEN /\ Ghost("disconnect", Returned(SUCCESS, NoMid), <<>>)
             /\ UNCHANGED <<config, host, keepalive, sock, connected, last_mid, tables,
                            subscriptions, message_callbacks, ping_pending,
                            last_recv, now, allocs, awaiting>>
        ELSE /\ sock' = "none"
             /\ connected' = FALSE
             /\ Ghost("disconnect", Returned(SUCCESS, NoMid), DisconnectEvents(ok))
             /\ UNCHANGED <<config, host, keepalive, last_mid, tables, subscriptions,
                            message_callbacks, ping_pending, last_recv, now, allocs, awaiting>>

(***************************************************************************)
(* Client.reconnect (client.py 474-486): ValueError before any connect(),  *)
(* else disconnect() if connected, then connect() with the stored          *)
(* host, port and keepalive.  ok: the DISCONNECT send does not raise       *)
(* (asked of the environment only if the client is connected).             *)
(***************************************************************************)
Reconnect(E) ==
    IF host = "none"
    THEN /\ Ghost("reconnect", Raised, <<>>)
         /\ UNCHANGED <<config, host, keepalive, sock, connected, last_mid, tables,
                        subscriptions, message_callbacks, ping_pending,
                        last_recv, now, allocs, awaiting>>
    ELSE \E ok \in BOOLEAN, e \in E :
            IF connected
            THEN ConnectFrom("reconnect", FALSE, "none", DisconnectEvents(ok),
                             keepalive, e)
            ELSE ok /\ ConnectFrom("reconnect", connected, sock, <<>>, keepalive, e)

(***************************************************************************)
(* The packet handlers (client.py 842-1019).  Each gives the tables after  *)
(* the packet, whether the client is still connected, the ping flag, and   *)
(* the events; ok: the acknowledgement the handler sends does not raise.   *)
(***************************************************************************)
Handled(i, f, rec, rel, inp, conn, ping, events) ==
    [infos |-> i, inflight |-> f, qos2_pubrec_received |-> rec,
     qos2_pubrel_sent |-> rel, in_packet |-> inp, connected |-> conn,
     ping_pending |-> ping, ev |-> events]

\* nothing changes but the events
HandledWith(conn, ping, events) ==
    Handled(infos, inflight, qos2_pubrec_received, qos2_pubrel_sent, in_packet,
            conn, ping, events)

\* client.py 871-920
HandlePublish(pkt, ok, conn, ping) ==
    IF pkt.qos = 1
    THEN HandledWith(conn, ping,
                     <<Sent("PUBACK", pkt.mid, ok)>> \o Deliver(Message(pkt)))
    ELSE IF pkt.qos = 2
    THEN Handled(infos, inflight, qos2_pubrec_received, qos2_pubrel_sent,
                 IF ok THEN MapPut(in_packet, pkt.mid, Message(pkt)) ELSE in_packet,
                 conn, ping, <<Sent("PUBREC", pkt.mid, ok)>>)
    ELSE HandledWith(conn, ping, Deliver(Message(pkt)))

\* _handle_puback without the pop of the inflight entry
HandlePubackKeepsEntry(pkt, conn, ping) ==
    IF pkt.mid \in DOMAIN inflight
    THEN Handled([infos EXCEPT ![inflight[pkt.mid]] = SetConfirmed(@)],
                 inflight, qos2_pubrec_received, qos2_pubrel_sent, in_packet, conn, ping,
                 <<Called("on_publish", pkt.mid, 0)>>)
    ELSE HandledWith(conn, ping, <<>>)

\* client.py 922-929
HandlePuback(pkt, conn, ping) ==
    IF pkt.mid \in DOMAIN inflight
    THEN Handled([infos EXCEPT ![inflight[pkt.mid]] = SetConfirmed(@)],
                 MapPop(inflight, pkt.mid),
                 qos2_pubrec_received, qos2_pubrel_sent, in_packet, conn, ping,
                 <<Called("on_publish", pkt.mid, 0)>>)
    ELSE HandledWith(conn, ping, <<>>)

\* _handle_pubrec completing the publish as _handle_puback does
HandlePubrecCompletes(pkt, ok, conn, ping) ==
    IF pkt.mid \in DOMAIN inflight
    THEN Handled([infos EXCEPT ![inflight[pkt.mid]] = SetConfirmed(@)],
                 MapPop(inflight, pkt.mid),
                 MapPut(qos2_pubrec_received, pkt.mid, inflight[pkt.mid]),
                 IF ok THEN qos2_pubrel_sent \cup {pkt.mid} ELSE qos2_pubrel_sent,
                 in_packet, conn, ping,
                 <<Sent("PUBREL", pkt.mid, ok), Called("on_publish", pkt.mid, 0)>>)
    ELSE HandledWith(conn, ping, <<>>)

\* client.py 931-948
HandlePubrec(pkt, ok, conn, ping) ==
    IF pkt.mid \in DOMAIN inflight
    THEN Handled(infos, inflight,
                 MapPut(qos2_pubrec_received, pkt.mid, inflight[pkt.mid]),
                 IF ok THEN qos2_pubrel_sent \cup {pkt.mid} ELSE qos2_pubrel_sent,
                 in_packet, conn, ping, <<Sent("PUBREL", pkt.mid, ok)>>)
    ELSE HandledWith(conn, ping, <<>>)

\* _handle_pubrel sending PUBCOMP only for a mid found in the inbound table
HandlePubrelFoundOnly(pkt, ok, conn, ping) ==
    IF pkt.mid \in DOMAIN in_packet
    THEN Handled(infos, inflight, qos2_pubrec_received, qos2_pubrel_sent,
                 MapPop(in_packet, pkt.mid), conn, ping,
                 Deliver(in_packet[pkt.mid]) \o <<Sent("PUBCOMP", pkt.mid, ok)>>)
    ELSE HandledWith(conn, ping, <<>>)

\* client.py 950-977
HandlePubrel(pkt, ok, conn, ping) ==
    IF pkt.mid \in DOMAIN in_packet
    THEN Handled(infos, inflight, qos2_pubrec_received, qos2_pubrel_sent,
                 MapPop(in_packet, pkt.mid), conn, ping,
                 Deliver(in_packet[pkt.mid]) \o <<Sent("PUBCOMP", pkt.mid, ok)>>)
    ELSE HandledWith(conn, ping, <<Sent("PUBCOMP", pkt.mid, ok)>>)

\* client.py 979-991
HandlePubcomp(pkt, conn, ping) ==
    IF pkt.mid \in DOMAIN inflight
    THEN Handled([infos EXCEPT ![inflight[pkt.mid]] = SetConfirmed(@)],
                 MapPop(inflight, pkt.mid),
                 MapPop(qos2_pubrec_received, pkt.mid),
                 qos2_pubrel_sent \ {pkt.mid}, in_packet, conn, ping,
                 <<Called("on_publish", pkt.mid, 0)>>)
    ELSE HandledWith(conn, ping, <<>>)

\* client.py 842-869 with 993-1019
HandlePacket(pkt, ok, conn, ping) ==
    CASE pkt.type = "PUBLISH" -> HandlePublish(pkt, ok, conn, ping)
      [] pkt.type = "PUBACK" -> HandlePuback(pkt, conn, ping)
      [] pkt.type = "PUBREC" -> HandlePubrec(pkt, ok, conn, ping)
      [] pkt.type = "PUBREL" -> HandlePubrel(pkt, ok, conn, ping)
      [] pkt.type = "PUBCOMP" -> HandlePubcomp(pkt, conn, ping)
      [] pkt.type = "SUBACK" ->
            HandledWith(conn, ping, <<Called("on_subscribe", pkt.mid, 0)>>)
      [] pkt.type = "UNSUBACK" ->
            HandledWith(conn, ping, <<Called("on_unsubscribe", pkt.mid, 0)>>)
      [] pkt.type = "PINGRESP" -> HandledWith(conn, FALSE, <<>>)
      [] pkt.type = "DISCONNECT" ->
            HandledWith(FALSE, ping, <<Called("on_disconnect", 0, pkt.rc)>>)
      [] OTHER -> HandledWith(conn, ping, <<>>)

(***************************************************************************)
(* Client.loop (client.py 723-792).  e is what the environment does:       *)
(* pingOk (a PINGREQ send does not raise), rd (Idle: nothing to read; a    *)
(* read that fails; or the frame read), ackOk (the handler's send does not *)
(* raise).                                                                 *)
(***************************************************************************)
\* time.ticks_diff(now, self._last_recv), in milliseconds
SinceRecvMs ==
    (now - last_recv) * TickMs

\* the timeout declared at twice the keepalive
KeepaliveExpiredAtTwice ==
    keepalive > 0 /\ SinceRecvMs >= 2 * keepalive * 1000

\* time_since_recv >= self._keepalive * 1.5, both sides times 2000
KeepaliveExpired ==
    keepalive > 0 /\ 2 * SinceRecvMs >= 3 * keepalive * 1000

\* the PINGREQ sent whether or not a ping is outstanding
PingDueIgnoringPending ==
    keepalive > 0 /\ ~KeepaliveExpired /\ SinceRecvMs >= keepalive * 1000

\* time_since_recv >= self._keepalive and not self._ping_pending
PingDue ==
    keepalive > 0 /\ ~KeepaliveExpired /\ SinceRecvMs >= keepalive * 1000
        /\ ~ping_pending

\* the packets the broker may send: inbound messages,
InMessages ==
    {Packet("PUBLISH", 0, 0, m.topic, m.payload, 0) : m \in RxMessages}
        \cup {Packet("PUBLISH", mid, q, m.topic, m.payload, 0) :
                mid \in RxMids, q \in {1, 2}, m \in RxMessages}
        \cup {AckPacket("PUBREL", mid) : mid \in RxMids}

\* acknowledgements of what the client published,
InPubAcks ==
    {AckPacket(ty, mid) : ty \in {"PUBACK", "PUBREC", "PUBCOMP"}, mid \in RxMids}

\* acknowledgements of its subscriptions,
InSubAcks ==
    {AckPacket(ty, mid) : ty \in {"SUBACK", "UNSUBACK"}, mid \in RxMids}

\* the bodies of the DISCONNECT frames a broker sends: MQTT 3.1.1 gives the
\* packet neither variable header nor payload, MQTT 5 a reason code
DisconnectBodies ==
    IF protocol = MQTTv311 THEN {<<>>} ELSE {<<>>, <<NOT_AUTHORIZED>>}

\* and the traffic of the session: PINGRESP, DISCONNECT, frames of types the
\* client does not decode, reads that fail
InSession ==
    {AckPacket("PINGRESP", 0)}
        \cup {DisconnectFrame(body) : body \in DisconnectBodies}
        \cup {Wire(ty) : ty \in UnhandledTypes}
        \cup {Wire(f) : f \in ReadFailures}

InPackets ==
    InMessages \cup InPubAcks \cup InSubAcks \cup InSession

\* the handler of pkt sends an acknowledgement
Acknowledges(pkt) ==
    \/ pkt.type = "PUBLISH" /\ pkt.qos > 0
    \/ pkt.type \in {"PUBREC", "PUBREL"}

\* a send that is not made is never asked of the environment
PingOutcomes ==
    IF PingDue THEN BOOLEAN ELSE {TRUE}

AckOutcomes(rd) ==
    IF Acknowledges(rd) THEN BOOLEAN ELSE {TRUE}

LoopEnv(pingOk, rd, ackOk) ==
    [pingOk |-> pingOk, rd |-> rd, ackOk |-> ackOk]

\* _send_pingreq (client.py 1021-1028) when due: the event, and _connected after it
PingEvents(e) ==
    IF PingDue THEN <<Sent("PINGREQ", 0, e.pingOk /\ sock = "open")>> ELSE <<>>

AfterPing(e) ==
    IF PingDue /\ ~(e.pingOk /\ sock = "open") THEN FALSE ELSE connected

LoopOutcome(e) ==
    IF KeepaliveExpired
    THEN [h |-> HandledWith(FALSE, ping_pending,
                            <<Called("on_disconnect", 0, KEEPALIVE_TIMEOUT)>>),
          last_recv |-> last_recv, ret |-> Returned(KEEPALIVE_TIMEOUT, NoMid)]
    ELSE IF sock = "none"
    THEN \* poller.register(None) raises
         [h |-> HandledWith(AfterPing(e), ping_pending \/ PingDue, PingEvents(e)),
          last_recv |-> last_recv, ret |-> Raised]
    ELSE IF e.rd = Idle
    THEN [h |-> HandledWith(AfterPing(e), ping_pending \/ PingDue, PingEvents(e)),
          last_recv |-> last_recv, ret |-> Returned(SUCCESS, NoMid)]
    ELSE IF read_packet_from_socket(protocol, e.rd) = NonePacket
    THEN [h |-> HandledWith(FALSE, ping_pending \/ PingDue,
                            PingEvents(e) \o <<ReceivedNone(e.rd),
                                Called("on_disconnect", 0, UNSPECIFIED_ERROR)>>),
          last_recv |-> last_recv, ret |-> Returned(UNSPECIFIED_ERROR, NoMid)]
    ELSE LET packet == read_packet_from_socket(protocol, e.rd)
             h == HandlePacket(packet, e.ackOk, AfterPing(e), ping_pending \/ PingDue)
         IN  [h |-> [h EXCEPT !.ev = PingEvents(e) \o <<Received(packet)>> \o @],
              last_recv |-> now, ret |-> Returned(SUCCESS, NoMid)]

\* the packet loop() hands to _handle_packet, if any
Handles(e) ==
    /\ connected /\ ~KeepaliveExpired /\ sock = "open" /\ e.rd /= Idle
    /\ read_packet_from_socket(protocol, e.rd) /= NonePacket

AwaitingAfter(e) ==
    IF Handles(e) /\ e.rd.type = "PUBLISH" /\ e.rd.qos = 2
    THEN MapPut(awaiting, e.rd.mid, Message(e.rd))
    ELSE IF Handles(e) /\ e.rd.type = "PUBREL"
    THEN MapPop(awaiting, e.rd.mid)
    ELSE awaiting

Loop(P) ==
    \E rd \in P \cup {Idle, Closed} :
      \E pingOk \in PingOutcomes, ackOk \in AckOutcomes(rd) :
        IF ~connected
        THEN /\ Ghost("loop", Returned(NOT_AUTHORIZED, NoMid), <<>>)
             /\ UNCHANGED <<config, host, keepalive, sock, connected, last_mid, tables,
                            subscriptions, message_callbacks, ping_pending,
                            last_recv, now, allocs, awaiting>>
        ELSE LET e == LoopEnv(pingOk, rd, ackOk)
                 r == LoopOutcome(e)
             IN  /\ infos' = r.h.infos
                 /\ inflight' = r.h.inflight
                 /\ qos2_pubrec_received' = r.h.qos2_pubrec_received
                 /\ qos2_pubrel_sent' = r.h.qos2_pubrel_sent
                 /\ in_packet' = r.h.in_packet
                 /\ connected' = r.h.connected
                 /\ ping_pending' = r.h.ping_pending
                 /\ last_recv' = r.last_recv
                 /\ awaiting' = AwaitingAfter(e)
                 /\ Ghost("loop", r.ret, r.h.ev)
                 /\ UNCHANGED <<config, host, keepalive, sock, last_mid, subscriptions,
                                message_callbacks, now, allocs>>

(***************************************************************************)
(* Client.publish (client.py 558-609); ok: the PUBLISH send does not       *)
(* raise.  The ValueError for a qos outside 0..2 is not modelled.          *)
(***************************************************************************)
PubTopics ==
    {<<"a">>}

PubPayloads ==
    {"x"}

\* publish() that reports a QoS 1 or 2 message as a QoS 0 one: on_publish at
\* once and no inflight entry
PublishOutcomeUnregistered(topic, payload, qos, ok) ==
    LET mid == IF qos > 0 THEN NextMid(last_mid) ELSE 0
        info == Info(mid, RC_QUEUED, FALSE, qos)
        sent == ok /\ sock = "open"
    IN  IF ~sent
        THEN [last_mid |-> IF qos > 0 THEN mid ELSE last_mid, connected |-> FALSE,
              infos |-> infos, inflight |-> inflight,
              ret |-> ReturnedInfo(info, 0),
              ev |-> <<SentPublish(mid, qos, FALSE, topic, payload)>>]
        ELSE [last_mid |-> mid, connected |-> connected,
              infos |-> infos, inflight |-> inflight,
              ret |-> ReturnedInfo(SetPublished(info), 0),
              ev |-> <<SentPublish(mid, qos, TRUE, topic, payload),
                       Called("on_publish", mid, 0)>>]

\* publish() registering the handle in the inflight table before the send
PublishOutcomeRegistersFirst(topic, payload, qos, ok) ==
    LET mid == IF qos > 0 THEN NextMid(last_mid) ELSE 0
        info == Info(mid, RC_QUEUED, FALSE, qos)
        sent == ok /\ sock = "open"
    IN  IF qos = 0
        THEN [last_mid |-> last_mid, connected |-> connected /\ sent,
              infos |-> infos, inflight |-> inflight,
              ret |-> ReturnedInfo(IF sent THEN SetPublished(info) ELSE info, 0),
              ev |-> <<SentPublish(mid, qos, sent, topic, payload)>>
                        \o IF sent THEN <<Called("on_publish", mid, 0)>> ELSE <<>>]
        ELSE [last_mid |-> mid, connected |-> connected /\ sent,
              infos |-> Append(infos, info),
              inflight |-> MapPut(inflight, mid, Len(infos) + 1),
              ret |-> ReturnedInfo(info, Len(infos) + 1),
              ev |-> <<SentPublish(mid, qos, sent, topic, payload)>>]

\* what publish() does on a connected client
PublishOutcome(topic, payload, qos, ok) ==
    LET mid == IF qos > 0 THEN NextMid(last_mid) ELSE 0
        info == Info(mid, RC_QUEUED, FALSE, qos)
        sent == ok /\ sock = "open"
    IN  IF ~sent
        THEN [last_mid |-> IF qos > 0 THEN mid ELSE last_mid, connected |-> FALSE,
              infos |-> infos, inflight |-> inflight,
              ret |-> ReturnedInfo(info, 0),
              ev |-> <<SentPublish(mid, qos, FALSE, topic, payload)>>]
        ELSE IF qos = 0
        THEN [last_mid |-> last_mid, connected |-> connected,
              infos |-> infos, inflight |-> inflight,
              ret |-> ReturnedInfo(SetPublished(info), 0),
              ev |-> <<SentPublish(mid, qos, TRUE, topic, payload),
                       Called("on_publish", mid, 0)>>]
        ELSE [last_mid |-> mid, connected |-> connected,
              infos |-> Append(infos, info),
              inflight |-> MapPut(inflight, mid, Len(infos) + 1),
              ret |-> ReturnedInfo(info, Len(infos) + 1),
              ev |-> <<SentPublish(mid, qos, TRUE, topic, payload)>>]

Publish ==
    \E topic \in PubTopics, payload \in PubPayloads, qos \in 0..2, ok \in BOOLEAN :
        IF ~connected
        THEN /\ Ghost("publish", ReturnedInfo(Info(0, RC_QUEUED, FALSE, qos), 0), <<>>)
             /\ UNCHANGED <<config, host, keepalive, sock, connected, last_mid, tables,
                            subscriptions, message_callbacks, ping_pending,
                            last_recv, now, allocs, awaiting>>
        ELSE LET r == PublishOutcome(topic, payload, qos, ok)
             IN  /\ qos > 0 => allocs < MaxAlloc
                 /\ allocs' = IF qos > 0 THEN allocs + 1 ELSE allocs
                 /\ last_mid' = r.last_mid
                 /\ connected' = r.connected
                 /\ infos' = r.infos
                 /\ inflight' = r.inflight
                 /\ Ghost("publish", r.ret, r.ev)
                 /\ UNCHANGED <<config, host, keepalive, sock, qos2_pubrec_received,
                                qos2_pubrel_sent, in_packet, subscriptions,
                                message_callbacks, ping_pending, last_recv, now, awaiting>>

(***************************************************************************)
(* Client.subscribe (client.py 615-661) and Client.unsubscribe (663-704),  *)
(* called with one topic filter; ok: the send does not raise.  The event   *)
(* of the send carries the filter, and for SUBSCRIBE the qos in rc.  The   *)
(* registry keeps the qos of the pair (qos, properties): the properties    *)
(* object is stored as it was passed.                                      *)
(***************************************************************************)
Subscribe ==
    \E topic \in Filters, qos \in 0..1, ok \in BOOLEAN :
        IF ~connected
        THEN /\ Ghost("subscribe", Returned(NOT_AUTHORIZED, NoMid), <<>>)
             /\ UNCHANGED <<config, host, keepalive, sock, connected, last_mid, tables,
                            subscriptions, message_callbacks, ping_pending,
                            last_recv, now, allocs, awaiting>>
        ELSE LET mid == NextMid(last_mid)
                 sent == ok /\ sock = "open"
             IN  /\ allocs < MaxAlloc
                 /\ allocs' = allocs + 1
                 /\ last_mid' = mid
                 /\ connected' = IF sent THEN connected ELSE FALSE
                 /\ subscriptions' =
                        IF sent THEN MapPut(subscriptions, topic, qos) ELSE subscriptions
                 /\ Ghost("subscribe",
                          Returned(IF sent THEN SUCCESS ELSE UNSPECIFIED_ERROR, mid),
                          <<Event("send", "SUBSCRIBE", mid, qos, sent, topic, "")>>)
                 /\ UNCHANGED <<config, host, keepalive, sock, tables,
                                message_callbacks, ping_pending, last_recv, now, awaiting>>

\* unsubscribe() without the early return of a client that is not connected
UnsubscribeUnguarded ==
    \E topic \in Filters, ok \in BOOLEAN :
        LET mid == NextMid(last_mid)
            sent == connected /\ ok /\ sock = "open"
        IN  /\ allocs < MaxAlloc
            /\ allocs' = allocs + 1
            /\ last_mid' = mid
            /\ connected' = IF sent THEN connected ELSE FALSE
            /\ subscriptions' =
                   IF sent THEN MapPop(subscriptions, topic) ELSE subscriptions
            /\ message_callbacks' =
                   IF sent
                   THEN SelectSeq(message_callbacks, LAMBDA c : c /= topic)
                   ELSE message_callbacks
            /\ Ghost("unsubscribe",
                     Returned(IF sent THEN SUCCESS ELSE UNSPECIFIED_ERROR, mid),
                     <<Event("send", "UNSUBSCRIBE", mid, 0, sent, topic, "")>>)
            /\ UNCHANGED <<config, host, keepalive, sock, tables, ping_pending,
                           last_recv, now, awaiting>>

Unsubscribe ==
    \E topic \in Filters, ok \in BOOLEAN :
        IF ~connected
        THEN /\ Ghost("unsubscribe", Returned(NOT_AUTHORIZED, NoMid), <<>>)
             /\ UNCHANGED <<config, host, keepalive, sock, connected, last_mid, tables,
                            subscriptions, message_callbacks, ping_pending,
                            last_recv, now, allocs, awaiting>>
        ELSE LET mid == NextMid(last_mid)
                 sent == ok /\ sock = "open"
             IN  /\ allocs < MaxAlloc
                 /\ allocs' = allocs + 1
                 /\ last_mid' = mid
                 /\ connected' = IF sent THEN connected ELSE FALSE
                 /\ subscriptions' =
                        IF sent THEN MapPop(subscriptions, topic) ELSE subscriptions
                 /\ message_callbacks' =
                        IF sent
                        THEN SelectSeq(message_callbacks, LAMBDA c : c /= topic)
                        ELSE message_callbacks
                 /\ Ghost("unsubscribe",
                          Returned(IF sent THEN SUCCESS ELSE UNSPECIFIED_ERROR, mid),
                          <<Event("send", "UNSUBSCRIBE", mid, 0, sent, topic, "")>>)
                 /\ UNCHANGED <<config, host, keepalive, sock, tables, ping_pending,
                                last_recv, now, awaiting>>

(***************************************************************************)
(* Client.message_callback_add / message_callback_remove (client.py        *)
(* 706-717): a dict keeps a key that is assigned again at its place.       *)
(***************************************************************************)
MessageCallbackAdd ==
    \E sub \in Filters :
        /\ message_callbacks' =
              IF \E i \in 1..Len(message_callbacks) : message_callbacks[i] = sub
              THEN message_callbacks ELSE Append(message_callbacks, sub)
        /\ Ghost("message_callback_add", Returned(SUCCESS, NoMid), <<>>)
        /\ UNCHANGED <<config, host, keepalive, sock, connected, last_mid, tables,
                       subscriptions, ping_pending, last_recv, now, allocs, awaiting>>

MessageCallbackRemove ==
    \E sub \in Filters :
        /\ message_callbacks' = SelectSeq(message_callbacks, LAMBDA c : c /= sub)
        /\ Ghost("message_callback_remove", Returned(SUCCESS, NoMid), <<>>)
        /\ UNCHANGED <<config, host, keepalive, sock, connected, last_mid, tables,
                       subscriptions, ping_pending, last_recv, now, allocs, awaiting>>

(***************************************************************************)
(* Time passes.                                                            *)
(***************************************************************************)
Tick ==
    /\ now < MaxNow
    /\ now' = now + 1
    /\ Ghost("tick", Returned(SUCCESS, NoMid), <<>>)
    /\ UNCHANGED <<config, host, keepalive, sock, connected, last_mid, tables,
                   subscriptions, message_callbacks, ping_pending, last_recv, allocs, awaiting>>

Next ==
    \/ Connect(KeepAlives, ConnectEnv)
    \/ Reconnect(ConnectEnv)
    \/ Disconnect
    \/ Publish
    \/ Subscribe
    \/ Unsubscribe
    \/ MessageCallbackAdd
    \/ MessageCallbackRemove
    \/ Loop(InPackets)
    \/ Tick

Spec ==
    Init /\ [][Next]_vars

(***************************************************************************)
(* The session: connecting, disconnecting and the keepalive, for every     *)
(* protocol version and with or without TLS, on a client that publishes    *)
(* and receives nothing.                                                   *)
(***************************************************************************)
InitSession ==
    Init /\ Fresh /\ ~on_message

NextSession ==
    \/ Connect(KeepAlives, ConnectEnv)
    \/ Reconnect(ConnectEnv)
    \/ Disconnect
    \/ Loop(InSession)
    \/ Tick

SpecSession ==
    InitSession /\ [][NextSession]_vars

(***************************************************************************)
(* Outbound traffic: publish and the broker's acknowledgements, on an      *)
(* MQTT 5 client without TLS or keepalive whose connection attempts are    *)
(* answered.                                                               *)
(***************************************************************************)
InitOutbound ==
    Init /\ protocol = MQTTv5 /\ ~ssl_context /\ ~on_message

NextOutbound ==
    \/ Connect({0}, ConnectAnswered)
    \/ Disconnect
    \/ Publish
    \/ Loop(InPubAcks)

SpecOutbound ==
    InitOutbound /\ [][NextOutbound]_vars

(***************************************************************************)
(* The message id generator: the three operations that draw from it, and   *)
(* the acknowledgements of subscriptions, on the same client.              *)
(***************************************************************************)
NextSubscriptions ==
    \/ Connect({0}, ConnectAnswered)
    \/ Publish
    \/ Subscribe
    \/ Unsubscribe
    \/ Loop(InSubAcks)

SpecSubscriptions ==
    InitOutbound /\ [][NextSubscriptions]_vars

(***************************************************************************)
(* Inbound traffic: the broker's PUBLISH and PUBREL packets and the        *)
(* message callbacks, on the same client with or without on_message.       *)
(***************************************************************************)
InitInbound ==
    Init /\ Fresh /\ protocol = MQTTv5 /\ ~ssl_context

NextInbound ==
    \/ Connect({0}, ConnectAnswered)
    \/ MessageCallbackAdd
    \/ MessageCallbackRemove
    \/ Loop(InMessages)

SpecInbound ==
    InitInbound /\ [][NextInbound]_vars

(***************************************************************************)
(* Resuming: publishes left unacknowledged when the connection is lost by  *)
(* any of its ways, and the connection made after it, on the same client   *)
(* with or without keepalive.                                              *)
(***************************************************************************)
InResume ==
    {AckPacket("PUBREC", 1), DisconnectFrame(<<>>)}

NextResume ==
    \/ Connect(KeepAlives, ConnectAnswered)
    \/ Reconnect(ConnectAnswered)
    \/ Disconnect
    \/ Publish
    \/ Loop(InResume)
    \/ Tick

InitResume ==
    InitOutbound /\ Fresh

SpecResume ==
    InitResume /\ [][NextResume]_vars

(***************************************************************************)
(* Routing: inbound messages of QoS 0 and 1 on a client that subscribes,   *)
(* unsubscribes and registers callbacks, with or without on_message.       *)
(***************************************************************************)
InRouting ==
    {Packet("PUBLISH", q, q, m.topic, m.payload, 0) : q \in 0..1, m \in RxMessages}

NextRouting ==
    \/ Connect({0}, ConnectAnswered)
    \/ Subscribe
    \/ Unsubscribe
    \/ MessageCallbackAdd
    \/ Loop(InRouting)

SpecRouting ==
    InitInbound /\ [][NextRouting]_vars

(***************************************************************************)
(* The helper functions, each called once on arguments drawn at the start, *)
(* by a client that is otherwise idle.                                     *)
(***************************************************************************)
client ==
    <<config, host, keepalive, sock, connected, last_mid, tables, subscriptions,
      message_callbacks, ping_pending, last_recv, now, allocs, awaiting>>

IdleClient ==
    InitClient /\ Fresh /\ protocol = MQTTv5 /\ ~ssl_context /\ ~on_message

\* the start of a call on arguments drawn from S
InitCall(S) ==
    IdleClient /\ args \in S

\* the sequences of 1..n elements of S
SeqsUpTo(S, n) ==
    UNION {[1..k -> S] : k \in 1..n}

RECURSIVE Join(_)
\* "/".join(levels)
Join(levels) ==
    IF Len(levels) = 1 THEN levels[1]
    ELSE levels[1] \o <<"/">> \o Join(Tail(levels))

(***************************************************************************)
(* Client._topic_matches (client.py 1030-1055) on filters of up to         *)
(* MaxLevels levels, each a literal, "+" or "#", and topics of up to       *)
(* MaxLevels + 1 levels.  args keeps the levels the strings were built     *)
(* from; the function is given the strings.                                *)
(***************************************************************************)
PatternLevels ==
    {<<"a">>, <<"+">>, <<"#">>}

TopicLevels ==
    {<<"a">>, <<"b">>}

TopicArgs ==
    {[pattern_levels |-> pl, topic_levels |-> tl, pattern |-> Join(pl), topic |-> Join(tl)] :
        pl \in SeqsUpTo(PatternLevels, MaxLevels),
        tl \in SeqsUpTo(TopicLevels, MaxLevels + 1)}

InitTopics ==
    IdleClient /\ args \in TopicArgs

TopicMatchesCall ==
    /\ lastOp = "init"
    /\ lastOp' = "_topic_matches"
    /\ ret' = TopicMatches(args.pattern, args.topic)
    /\ UNCHANGED <<client, args, out>>

SpecTopics ==
    InitTopics /\ [][TopicMatchesCall]_vars

(***************************************************************************)
(* _encode_variable_length and _decode_variable_length (properties.py      *)
(* 176-219).  Bytes are integers 0..255, data a sequence of bytes, offsets *)
(* count from 0 as in the source.  byte & 0x7F is byte % 128, byte & 0x80  *)
(* is zero when byte < 128, byte |= 0x80 adds 128 to a byte below 128.     *)
(***************************************************************************)
RECURSIVE EncodeFrom(_, _)
\* the while loop of _encode_variable_length
EncodeFrom(value, result) ==
    LET byte == value % 128
        rest == value \div 128
    IN  IF rest > 0 THEN EncodeFrom(rest, Append(result, byte + 128))
        ELSE Append(result, byte)

EncodeVariableLength(value) ==
    EncodeFrom(value, <<>>)

\* what _decode_variable_length gives: (value, offset), or a ValueError
Decoded(value, offset) ==
    [value |-> value, offset |-> offset, exc |-> FALSE]

ValueError ==
    [value |-> 0, offset |-> 0, exc |-> TRUE]

RECURSIVE DecodeFromThreeBytes(_, _, _, _)
\* _decode_variable_length refusing a fourth byte
DecodeFromThreeBytes(data, offset, multiplier, value) ==
    IF offset >= Len(data) THEN ValueError
    ELSE LET byte == data[offset + 1]
             v == value + (byte % 128) * multiplier
         IN  IF byte < 128 THEN Decoded(v, offset + 1)
             ELSE IF multiplier * 128 > 128 * 128 THEN ValueError
             ELSE DecodeFromThreeBytes(data, offset + 1, multiplier * 128, v)

RECURSIVE DecodeFromPastEnd(_, _, _, _)
\* _decode_variable_length returning what it has when the buffer ends
DecodeFromPastEnd(data, offset, multiplier, value) ==
    IF offset >= Len(data) THEN Decoded(value, offset)
    ELSE LET byte == data[offset + 1]
             v == value + (byte % 128) * multiplier
         IN  IF byte < 128 THEN Decoded(v, offset + 1)
             ELSE IF multiplier * 128 > 128 * 128 * 128 THEN ValueError
             ELSE DecodeFromPastEnd(data, offset + 1, multiplier * 128, v)

RECURSIVE DecodeFrom(_, _, _, _)
\* the while loop of _decode_variable_length
DecodeFrom(data, offset, multiplier, value) ==
    IF offset >= Len(data) THEN ValueError
    ELSE LET byte == data[offset + 1]
             v == value + (byte % 128) * multiplier
         IN  IF byte < 128 THEN Decoded(v, offset + 1)
             ELSE IF multiplier * 128 > 128 * 128 * 128 THEN ValueError
             ELSE DecodeFrom(data, offset + 1, multiplier * 128, v)

DecodeVariableLength(data, offset) ==
    DecodeFrom(data, offset, 1, 0)

\* the largest value four bytes encode
MaxVarint ==
    268435455

\* the values within MaxDelta of a power of 128, where the length of the
\* encoding changes, and of the top of the range; and values spread over
\* the range
VarintValues ==
    {v \in UNION {((128 ^ k) - MaxDelta)..((128 ^ k) + MaxDelta) : k \in 0..4} :
        v >= 0 /\ v <= MaxVarint}
        \cup {(i * 2113663) % (MaxVarint + 1) : i \in 0..63}

InitVarint ==
    IdleClient /\ args \in {[value |-> v] : v \in VarintValues}

\* encode, then decode what was encoded from offset 0
VarintCall ==
    /\ lastOp = "init"
    /\ lastOp' = "_encode_variable_length"
    /\ LET data == EncodeVariableLength(args.value)
       IN  ret' = [data |-> data, decoded |-> DecodeVariableLength(data, 0)]
    /\ UNCHANGED <<client, args, out>>

SpecVarint ==
    InitVarint /\ [][VarintCall]_vars

(***************************************************************************)
(* Properties (properties.py 12-166) with the length-prefixed codecs       *)
(* (222-268).  A bag is the dict _properties in insertion order: a         *)
(* sequence of entries, each a property id and its value; the value of     *)
(* USER_PROPERTY is the list of its (key, value) pairs.  A string is the   *)
(* sequence of its code points, all below 128, which str.encode('utf-8')   *)
(* and bytes.decode('utf-8') map onto the same byte values.                *)
(***************************************************************************)
PAYLOAD_FORMAT_INDICATOR ==
    1

MESSAGE_EXPIRY_INTERVAL ==
    2

CONTENT_TYPE ==
    3

CORRELATION_DATA ==
    9

SUBSCRIPTION_IDENTIFIER ==
    11

TOPIC_ALIAS ==
    35

USER_PROPERTY ==
    38

\* PROPERTY_DATA_TYPE.get(prop_id), for the ids in use ("none" for None)
PROPERTY_DATA_TYPE(prop_id) ==
    CASE prop_id = PAYLOAD_FORMAT_INDICATOR -> "byte"
      [] prop_id = MESSAGE_EXPIRY_INTERVAL -> "uint32"
      [] prop_id = CONTENT_TYPE -> "utf8"
      [] prop_id = CORRELATION_DATA -> "binary"
      [] prop_id = SUBSCRIPTION_IDENTIFIER -> "varint"
      [] prop_id = TOPIC_ALIAS -> "uint16"
      [] prop_id = USER_PROPERTY -> "utf8_pair"
      [] OTHER -> "none"

\* struct.pack('!B' / '!H' / '!I', value): big-endian
StructPackB(value) ==
    <<value>>

StructPackH(value) ==
    <<value \div 256, value % 256>>

StructPackI(value) ==
    <<value \div 16777216, (value \div 65536) % 256, (value \div 256) % 256, value % 256>>

\* struct.unpack_from('!H' / '!I', data, offset)[0]
StructUnpackH(data, offset) ==
    256 * data[offset + 1] + data[offset + 2]

StructUnpackI(data, offset) ==
    16777216 * data[offset + 1] + 65536 * data[offset + 2]
        + 256 * data[offset + 3] + data[offset + 4]

\* data[offset:offset + length]
Slice(data, offset, length) ==
    SubSeq(data, offset + 1, offset + length)

\* _encode_utf8 and _encode_binary
EncodeUtf8(string) ==
    StructPackH(Len(string)) \o string

EncodeBinary(data) ==
    StructPackH(Len(data)) \o data

EncodeUtf8Pair(key, value) ==
    EncodeUtf8(key) \o EncodeUtf8(value)

\* _decode_utf8 and _decode_binary: (value, new offset)
DecodeUtf8(data, offset) ==
    LET length == StructUnpackH(data, offset)
    IN  [value |-> Slice(data, offset + 2, length), offset |-> offset + 2 + length]

DecodeBinary(data, offset) ==
    LET length == StructUnpackH(data, offset)
    IN  [value |-> Slice(data, offset + 2, length), offset |-> offset + 2 + length]

\* Properties._encode_property_value
EncodePropertyValue(value, data_type) ==
    CASE data_type = "byte" -> StructPackB(value)
      [] data_type = "uint16" -> StructPackH(value)
      [] data_type = "uint32" -> StructPackI(value)
      [] data_type = "utf8" -> EncodeUtf8(value)
      [] data_type = "binary" -> EncodeBinary(value)
      [] data_type = "varint" -> EncodeVariableLength(value)
      [] data_type = "utf8_pair" -> EncodeUtf8Pair(value[1], value[2])
      [] OTHER -> <<>>

\* Properties._decode_property_value: (value, new offset)
DecodePropertyValue(data, offset, data_type) ==
    CASE data_type = "byte" -> [value |-> data[offset + 1], offset |-> offset + 1]
      [] data_type = "uint16" ->
            [value |-> StructUnpackH(data, offset), offset |-> offset + 2]
      [] data_type = "uint32" ->
            [value |-> StructUnpackI(data, offset), offset |-> offset + 4]
      [] data_type = "utf8" -> DecodeUtf8(data, offset)
      [] data_type = "binary" -> DecodeBinary(data, offset)
      [] data_type = "varint" ->
            LET d == DecodeVariableLength(data, offset)
            IN  [value |-> d.value, offset |-> d.offset]
      [] data_type = "utf8_pair" ->
            LET key == DecodeUtf8(data, offset)
                val == DecodeUtf8(data, key.offset)
            IN  [value |-> <<key.value, val.value>>, offset |-> val.offset]

\* the place of property_id in the bag, 0 when it has none
PropIndex(props, property_id) ==
    IF \E i \in 1..Len(props) : props[i].id = property_id
    THEN CHOOSE i \in 1..Len(props) : props[i].id = property_id
    ELSE 0

\* Properties.set overwriting the list of USER_PROPERTY as it does a scalar
PropSetOverwrites(props, property_id, value) ==
    LET i == PropIndex(props, property_id)
        v == IF property_id = USER_PROPERTY THEN <<value>> ELSE value
    IN  IF i = 0 THEN Append(props, [id |-> property_id, value |-> v])
        ELSE [props EXCEPT ![i].value = v]

\* Properties.set
PropSet(props, property_id, value) ==
    LET i == PropIndex(props, property_id)
    IN  IF property_id = USER_PROPERTY
        THEN IF i = 0 THEN Append(props, [id |-> property_id, value |-> <<value>>])
             ELSE [props EXCEPT ![i].value = Append(@, value)]
        ELSE IF i = 0 THEN Append(props, [id |-> property_id, value |-> value])
             ELSE [props EXCEPT ![i].value = value]

RECURSIVE PackUserProperties(_, _)
\* the inner loop of pack() over the pairs of USER_PROPERTY
PackUserProperties(prop_id, pairs) ==
    IF pairs = <<>> THEN <<>>
    ELSE <<prop_id>> \o EncodeUtf8Pair(Head(pairs)[1], Head(pairs)[2])
            \o PackUserProperties(prop_id, Tail(pairs))

RECURSIVE PackEntries(_)
\* the loop of pack() over the entries
PackEntries(props) ==
    IF props = <<>> THEN <<>>
    ELSE LET e == Head(props)
             data_type == PROPERTY_DATA_TYPE(e.id)
         IN  (IF data_type = "none" THEN <<>>
              ELSE IF e.id = USER_PROPERTY THEN PackUserProperties(e.id, e.value)
              ELSE <<e.id>> \o EncodePropertyValue(e.value, data_type))
                \o PackEntries(Tail(props))

\* Properties.pack
PropertiesPack(props) ==
    IF props = <<>> THEN EncodeVariableLength(0)
    ELSE LET data == PackEntries(props)
         IN  EncodeVariableLength(Len(data)) \o data

RECURSIVE UnpackFromDropping(_, _, _, _)
\* the while loop of unpack() giving up the properties already read when it
\* meets an unknown id
UnpackFromDropping(data, offset, end_offset, props) ==
    IF offset >= end_offset THEN [props |-> props, offset |-> offset]
    ELSE LET prop_id == data[offset + 1]
             data_type == PROPERTY_DATA_TYPE(prop_id)
         IN  IF data_type = "none" THEN [props |-> <<>>, offset |-> offset + 1]
             ELSE LET d == DecodePropertyValue(data, offset + 1, data_type)
                  IN  UnpackFromDropping(data, d.offset, end_offset,
                                         PropSet(props, prop_id, d.value))

RECURSIVE UnpackFrom(_, _, _, _)
\* the while loop of unpack()
UnpackFrom(data, offset, end_offset, props) ==
    IF offset >= end_offset THEN [props |-> props, offset |-> offset]
    ELSE LET prop_id == data[offset + 1]
             data_type == PROPERTY_DATA_TYPE(prop_id)
         IN  IF data_type = "none" THEN [props |-> props, offset |-> offset + 1]
             ELSE LET d == DecodePropertyValue(data, offset + 1, data_type)
                  IN  UnpackFrom(data, d.offset, end_offset,
                                 PropSet(props, prop_id, d.value))

\* Properties.unpack: (Properties, new offset)
PropertiesUnpack(data, offset) ==
    LET d == DecodeVariableLength(data, offset)
    IN  IF d.value = 0 THEN [props |-> <<>>, offset |-> d.offset]
        ELSE UnpackFrom(data, d.offset, d.offset + d.value, <<>>)

RECURSIVE SetAll(_, _)
\* a bag built by set() calls: s lists the (id, value) of the calls
SetAll(props, s) ==
    IF s = <<>> THEN props
    ELSE SetAll(PropSet(props, Head(s)[1], Head(s)[2]), Tail(s))

\* strings and pairs for the values
Strings ==
    {<<>>, <<97, 47, 98>>}

UserPairs ==
    {<<<<107>>, <<118>>>>, <<<<107>>, <<>>>>}

\* the set() calls that build a bag: one per scalar type, and three of
\* USER_PROPERTY, before, among or after them
PropertyArgs ==
    {[calls |-> SubSeq(<<u[1], u[2], u[3]>>, 1, k)
                    \o << <<PAYLOAD_FORMAT_INDICATOR, b>>, <<TOPIC_ALIAS, h>>,
                          <<MESSAGE_EXPIRY_INTERVAL, i>> >>
                    \o SubSeq(<<u[1], u[2], u[3]>>, k + 1, 3)
                    \o << <<CONTENT_TYPE, st>>, <<CORRELATION_DATA, st>>,
                          <<SUBSCRIPTION_IDENTIFIER, v>> >>] :
        k \in {0, 1, 3}, b \in {0, 255}, h \in {258, 65535},
        i \in {16909060, 2147483647}, st \in Strings, v \in {0, 128, MaxVarint},
        u \in {[j \in 1..3 |-> <<USER_PROPERTY, w[j]>>] : w \in [1..3 -> UserPairs]}}

InitProperties ==
    IdleClient /\ args \in PropertyArgs

\* build the bag, pack it, unpack what was packed from offset 0
PropertiesCall ==
    /\ lastOp = "init"
    /\ lastOp' = "Properties.pack"
    /\ LET props == SetAll(<<>>, args.calls)
           data == PropertiesPack(props)
       IN  ret' = [props |-> props, data |-> data, unpacked |-> PropertiesUnpack(data, 0)]
    /\ UNCHANGED <<client, args, out>>

SpecProperties ==
    InitProperties /\ [][PropertiesCall]_vars

(***************************************************************************)
(* PublishPacket (packets.py 163-239) as bytes.  flags & 0x08 is the bit   *)
(* of weight 8, (flags >> 1) & 0x03 the two bits above the lowest,         *)
(* flags & 0x01 the lowest.                                                *)
(***************************************************************************)
\* PacketType.PUBLISH
PUBLISH ==
    48

\* PublishPacket.__init__
PublishPacket(topic, payload, qos, retain, dup, mid, protocol_version, properties) ==
    [flags |-> (IF dup THEN 8 ELSE 0) + (qos % 4) * 2 + (IF retain THEN 1 ELSE 0),
     topic |-> topic, payload |-> payload, qos |-> qos, retain |-> retain,
     dup |-> dup, mid |-> mid, protocol_version |-> protocol_version,
     properties |-> properties]

\* MQTTPacket._pack_fixed_header (packets.py 34-37)
PackFixedHeader(packet_type, flags, remaining_length) ==
    <<(packet_type - (packet_type % 16)) + (flags % 16)>>
        \o EncodeVariableLength(remaining_length)

\* PublishPacket.pack writing the message id whatever the qos
PublishPackAlwaysMid(pkt) ==
    LET variable_header ==
            EncodeUtf8(pkt.topic) \o StructPackH(pkt.mid)
                \o (IF pkt.protocol_version = MQTTv5
                    THEN PropertiesPack(pkt.properties) ELSE <<>>)
        packet == variable_header \o pkt.payload
    IN  PackFixedHeader(PUBLISH, pkt.flags, Len(packet)) \o packet

\* PublishPacket.pack
PublishPack(pkt) ==
    LET variable_header ==
            EncodeUtf8(pkt.topic)
                \o (IF pkt.qos > 0 THEN StructPackH(pkt.mid) ELSE <<>>)
                \o (IF pkt.protocol_version = MQTTv5
                    THEN PropertiesPack(pkt.properties) ELSE <<>>)
        packet == variable_header \o pkt.payload
    IN  PackFixedHeader(PUBLISH, pkt.flags, Len(packet)) \o packet

\* PublishPacket.unpack
PublishUnpack(flags, data, protocol_version) ==
    LET qos == (flags \div 2) % 4
        topic == DecodeUtf8(data, 0)
        mid == IF qos > 0 THEN StructUnpackH(data, topic.offset) ELSE 0
        o1 == IF qos > 0 THEN topic.offset + 2 ELSE topic.offset
        props == IF protocol_version = MQTTv5 THEN PropertiesUnpack(data, o1)
                 ELSE [props |-> <<>>, offset |-> o1]
    IN  [flags |-> flags, topic |-> topic.value,
         payload |-> Slice(data, props.offset, Len(data) - props.offset),
         qos |-> qos, retain |-> (flags % 2) = 1, dup |-> ((flags \div 8) % 2) = 1,
         mid |-> mid, protocol_version |-> protocol_version, properties |-> props.props]

\* what read_packet_from_socket hands to decode_packet_data (mqtt5.py 27-63):
\* the flags of the first byte, and the bytes after the remaining length
FrameFlags(data) ==
    data[1] % 16

FrameBody(data) ==
    LET d == DecodeVariableLength(data, 1)
    IN  Slice(data, d.offset, d.value)

PublishArgs ==
    {PublishPacket(topic, payload, qos, retain, dup, mid, version, properties) :
        topic \in {<<97>>, <<97, 47, 98>>}, payload \in {<<>>, <<0, 255>>},
        qos \in 0..2, retain \in BOOLEAN, dup \in BOOLEAN, mid \in {1, 258, 65535},
        version \in {MQTTv311, MQTTv5},
        properties \in {<<>>, SetAll(<<>>, << <<TOPIC_ALIAS, 258>> >>)}}

InitPublishPacket ==
    IdleClient /\ args \in PublishArgs

\* pack the packet and unpack what was packed; pack it too as it would be
\* with qos 0 and with qos 1
PublishPacketCall ==
    /\ lastOp = "init"
    /\ lastOp' = "PublishPacket.pack"
    /\ LET data == PublishPack(args)
           WithQos(q) ==
               PublishPacket(args.topic, args.payload, q, args.retain, args.dup,
                             args.mid, args.protocol_version, args.properties)
       IN  ret' = [data |-> data,
                   unpacked |-> PublishUnpack(FrameFlags(data), FrameBody(data),
                                              args.protocol_version),
                   qos0 |-> PublishPack(WithQos(0)),
                   qos1 |-> PublishPack(WithQos(1))]
    /\ UNCHANGED <<client, args, out>>

SpecPublishPacket ==
    InitPublishPacket /\ [][PublishPacketCall]_vars

(***************************************************************************)
(* read_packet_from_socket (mqtt5.py 17-67) on a stream socket.  The peer  *)
(* writes one frame (first byte, remaining length, body) and after it the  *)
(* first bytes of its next packet, and closes after avail bytes; the       *)
(* socket hands over the bytes in pieces: the j-th recv() of the body      *)
(* returns at most split[j] bytes (the limits taken in turn), never more   *)
(* than asked for, and b"" once the peer has closed.  The result is what   *)
(* is passed to decode_packet_data, and consumed, the number of bytes      *)
(* taken from the socket.                                                  *)
(***************************************************************************)
Stream(byte1, length, tail) ==
    LET header == <<byte1>> \o EncodeVariableLength(length)
        n == Len(header)
    IN  [i \in 1..(n + length + Len(tail)) |->
            IF i <= n THEN header[i]
            ELSE IF i <= n + length THEN ((i - n) * 7) % 256
            ELSE tail[i - n - length]]

\* the for loop over the remaining length (mqtt5.py 34-47): i bytes read so far
RECURSIVE ReadLength(_, _, _, _, _, _)
ReadLength(stream, avail, pos, i, multiplier, remaining_length) ==
    IF i = 4 THEN [none |-> FALSE, value |-> remaining_length, pos |-> pos]
    ELSE IF pos >= avail THEN [none |-> TRUE, value |-> 0, pos |-> pos]
    ELSE LET value == stream[pos + 1]
             total == remaining_length + (value % 128) * multiplier
         IN  IF value < 128
             THEN [none |-> FALSE, value |-> total, pos |-> pos + 1]
             ELSE ReadLength(stream, avail, pos + 1, i + 1, multiplier * 128, total)

\* the body loop asking for the whole remaining length at every recv()
RECURSIVE ReadBodyAskingAll(_, _, _, _, _, _, _)
ReadBodyAskingAll(stream, avail, split, pos, data, remaining_length, j) ==
    IF Len(data) >= remaining_length
    THEN [none |-> FALSE, data |-> data, pos |-> pos]
    ELSE LET asked == remaining_length
             limit == split[((j - 1) % Len(split)) + 1]
             left == avail - pos
             k == IF asked <= limit /\ asked <= left THEN asked
                  ELSE IF limit <= left THEN limit ELSE left
         IN  IF k <= 0
             THEN [none |-> TRUE, data |-> <<>>, pos |-> pos]
             ELSE ReadBodyAskingAll(stream, avail, split, pos + k,
                                    data \o [x \in 1..k |-> stream[pos + x]],
                                    remaining_length, j + 1)

\* the while loop over the body (mqtt5.py 50-58): j is the number of the recv()
RECURSIVE ReadBody(_, _, _, _, _, _, _)
ReadBody(stream, avail, split, pos, data, remaining_length, j) ==
    IF Len(data) >= remaining_length
    THEN [none |-> FALSE, data |-> data, pos |-> pos]
    ELSE LET asked == remaining_length - Len(data)
             limit == split[((j - 1) % Len(split)) + 1]
             left == avail - pos
             k == IF asked <= limit /\ asked <= left THEN asked
                  ELSE IF limit <= left THEN limit ELSE left
         IN  IF k <= 0
             THEN [none |-> TRUE, data |-> <<>>, pos |-> pos]
             ELSE ReadBody(stream, avail, split, pos + k,
                           data \o [x \in 1..k |-> stream[pos + x]],
                           remaining_length, j + 1)

NoFrame(pos) ==
    [none |-> TRUE, packet_type |-> 0, flags |-> 0, data |-> <<>>, consumed |-> pos]

ReadFrame(stream, avail, split) ==
    IF avail <= 0 THEN NoFrame(0)
    ELSE LET byte1 == stream[1]
             len == ReadLength(stream, avail, 1, 0, 1, 0)
         IN  IF len.none THEN NoFrame(len.pos)
             ELSE LET body == ReadBody(stream, avail, split, len.pos, <<>>, len.value, 1)
                  IN  IF body.none THEN NoFrame(body.pos)
                      ELSE [none |-> FALSE,
                            packet_type |-> byte1 - (byte1 % 16),
                            flags |-> byte1 % 16,
                            data |-> body.data,
                            consumed |-> body.pos]

ReadFrameCall ==
    /\ lastOp = "init"
    /\ lastOp' = "read_packet_from_socket"
    /\ ret' = ReadFrame(Stream(args.byte1, args.length, args.tail), args.avail, args.split)
    /\ UNCHANGED <<client, args, out>>

\* frames with a body of up to MaxDelta bytes, of MaxDelta bytes around 128
\* (where the remaining length takes a second byte) and of 16384 bytes (a
\* third), read in one piece, in two, in large and small pieces in turn, or
\* (the short ones) byte by byte,
\* from a peer that stays or that closes within the frame; and the start of
\* a frame of 2097152 bytes (a fourth length byte) from a peer that closes
SpecFrame ==
    InitCall(
        LET lengths == (0..MaxDelta) \cup ((128 - MaxDelta)..(128 + MaxDelta)) \cup {16384}
            frame(length) == 1 + Len(EncodeVariableLength(length)) + length
            splits(length) ==
                {<<length + 1>>, <<(length \div 2) + 1>>, <<(length \div 8) + 1, 1>>}
                    \cup (IF length <= MaxDelta + 1 THEN {<<1>>} ELSE {})
            closes(length, tail) ==
                {frame(length) + Len(tail)}
                    \cup {a \in 0..(frame(length) - 1) : a <= MaxDelta \/ a >= frame(length) - 2}
        IN  {[byte1 |-> b, length |-> n, tail |-> t, split |-> s, avail |-> a] :
                b \in {48}, n \in {2097152}, t \in {<<>>}, s \in {<<1>>}, a \in 0..MaxDelta}
            \cup UNION {UNION {UNION {
                   {[byte1 |-> b, length |-> n, tail |-> t, split |-> s, avail |-> a] :
                        b \in {50, 208}, a \in closes(n, t)} :
                   s \in splits(n)} : t \in {<<>>, <<208, 0>>}} : n \in lengths})
        /\ [][ReadFrameCall]_vars

(***************************************************************************)
(* send_packet_to_socket (mqtt5.py 115-141).  script is what the socket    *)
(* does at each send(): n >= 0, it accepts at most n of the bytes offered  *)
(* and returns their number (0: it returns 0), or -e, it raises OSError(e);*)
(* once the script is used up it accepts whatever is offered.  The result: *)
(* wire, the bytes the socket accepted in the order it accepted them, and  *)
(* raised, the call did not return.                                        *)
(***************************************************************************)
MaxSends ==
    3

\* the loop offering the packet from its first byte at every send()
RECURSIVE SendAllFromStart(_, _, _, _, _)
SendAllFromStart(data, script, total_sent, j, wire) ==
    IF total_sent >= Len(data) THEN [raised |-> FALSE, wire |-> wire]
    ELSE LET offered == data
             outcome == IF j <= Len(script) THEN script[j] ELSE Len(offered)
             sent == IF outcome <= Len(offered) THEN outcome ELSE Len(offered)
         IN  IF outcome < 0
             THEN IF -outcome \notin {11, 115}
                  THEN [raised |-> TRUE, wire |-> wire]
                  ELSE SendAllFromStart(data, script, total_sent, j + 1, wire)
             ELSE IF sent = 0
             THEN [raised |-> TRUE, wire |-> wire]
             ELSE SendAllFromStart(data, script, total_sent + sent, j + 1,
                                   wire \o SubSeq(offered, 1, sent))

\* while total_sent < len(data): j is the number of the send()
RECURSIVE SendAll(_, _, _, _, _)
SendAll(data, script, total_sent, j, wire) ==
    IF total_sent >= Len(data) THEN [raised |-> FALSE, wire |-> wire]
    ELSE LET offered == SubSeq(data, total_sent + 1, Len(data))
             outcome == IF j <= Len(script) THEN script[j] ELSE Len(offered)
             sent == IF outcome <= Len(offered) THEN outcome ELSE Len(offered)
         IN  IF outcome < 0
             THEN IF -outcome \notin {11, 115}
                  THEN [raised |-> TRUE, wire |-> wire]
                  ELSE SendAll(data, script, total_sent, j + 1, wire)
             ELSE IF sent = 0
             THEN [raised |-> TRUE, wire |-> wire]
             ELSE SendAll(data, script, total_sent + sent, j + 1,
                          wire \o SubSeq(offered, 1, sent))

\* a PINGREQ or a QoS 1 PUBLISH, on a socket that for up to MaxSends calls
\* accepts 1, 2, 4 or all bytes, returns 0, or raises EAGAIN (11),
\* EINPROGRESS (115) or ECONNRESET (104)
SendCall ==
    /\ lastOp = "init"
    /\ lastOp' = "send_packet_to_socket"
    /\ LET data == IF args.packet = "PINGREQ" THEN PackFixedHeader(192, 0, 0)
                   ELSE PublishPack(PublishPacket(<<97>>, <<0, 255>>, 1, FALSE, FALSE,
                                                  258, MQTTv311, <<>>))
       IN  ret' = [data |-> data] @@ SendAll(data, args.script, 0, 1, <<>>)
    /\ UNCHANGED <<client, args, out>>

SpecSend ==
    InitCall({[packet |-> p, script |-> s] :
                    p \in {"PINGREQ", "PUBLISH"},
                    s \in {<<>>} \cup SeqsUpTo({0, 1, 2, 4, 100, -11, -115, -104}, MaxSends)})
        /\ [][SendCall]_vars

(***************************************************************************)
(* Properties.unpack (properties.py 101-141) on the bytes of an MQTT 5     *)
(* PUBLISH of QoS 0 as a broker may send it: the topic, a properties block *)
(* (the properties of before, then possibly a property with an identifier  *)
(* that PROPERTY_DATA_TYPE does not hold, given with the bytes of its      *)
(* value, then the properties of after), and the payload.                  *)
(***************************************************************************)
UnpackCall ==
    /\ lastOp = "init"
    /\ lastOp' = "Properties.unpack"
    /\ LET block == PackEntries(SetAll(<<>>, args.before)) \o args.unknown
                        \o PackEntries(SetAll(<<>>, args.after))
           start == Len(EncodeUtf8(args.topic))
           data == EncodeUtf8(args.topic) \o EncodeVariableLength(Len(block))
                       \o block \o args.payload
       IN  ret' = [data |-> data, start |-> start, block |-> Len(block),
                   unpacked |-> PropertiesUnpack(data, start),
                   publish |-> PublishUnpack(0, data, MQTTv5)]
    /\ UNCHANGED <<client, args, out>>

SpecUnpack ==
    InitCall({[topic |-> t, before |-> b, unknown |-> u, after |-> a, payload |-> p] :
                    t \in {<<>>, <<97>>},
                    b \in {<<>>, << <<TOPIC_ALIAS, 258>> >>,
                           << <<CONTENT_TYPE, <<97, 47, 98>> >>,
                              <<PAYLOAD_FORMAT_INDICATOR, 1>> >>},
                    u \in {<<>>, <<127>>, <<127, 1>>, <<0, 0, 2>>, <<4, 200, 1, 1>>},
                    a \in {<<>>, << <<MESSAGE_EXPIRY_INTERVAL, 60>> >>,
                           << <<USER_PROPERTY, <<<<107>>, <<118>>>> >>,
                              <<CORRELATION_DATA, <<0, 255>> >> >>},
                    p \in {<<>>, <<0, 255>>}})
        /\ [][UnpackCall]_vars

(***************************************************************************)
(* _decode_variable_length (properties.py 194-219) on the buffers of up to *)
(* MaxBytes bytes that a peer may send, read from offset 0 or 1.           *)
(***************************************************************************)
MaxBytes ==
    5

DecodeCall ==
    /\ lastOp = "init"
    /\ lastOp' = "_decode_variable_length"
    /\ ret' = DecodeVariableLength(args.data, args.offset)
    /\ UNCHANGED <<client, args, out>>

SpecDecode ==
    InitCall({[data |-> d, offset |-> o] :
                    d \in {<<>>} \cup SeqsUpTo({0, 1, 127, 128, 255}, MaxBytes),
                    o \in 0..1})
        /\ [][DecodeCall]_vars

(***************************************************************************)
(* RingBuffer (ringbuffer.py).  A buffer is its bytearray (a function on   *)
(* 0..size-1), size, head and tail.                                        *)
(***************************************************************************)
MaxBuffered ==
    5

\* _ring_buffer_find_pattern (ringbuffer.py 8-39)
ring_buffer_find_pattern(buf, buf_size, head, tail, pattern, pattern_len, max_search) ==
    LET available == (head - tail) % buf_size
        search_len == IF available <= max_search THEN available ELSE max_search
        RECURSIVE while(_, _, _, _)
        while(i, pos, matches, start_pos) ==
            IF i >= search_len THEN -1
            ELSE LET current_byte == buf[pos]
                 IN  IF current_byte = pattern[matches + 1]
                     THEN IF matches + 1 = pattern_len
                          THEN (IF matches = 0 THEN i ELSE start_pos)
                          ELSE while(i + 1, (pos + 1) % buf_size, matches + 1,
                                     IF matches = 0 THEN i ELSE start_pos)
                     ELSE IF matches > 0 /\ current_byte = pattern[1]
                     THEN while(i + 1, (pos + 1) % buf_size, 1, i)
                     ELSE while(i + 1, (pos + 1) % buf_size, 0, start_pos)
    IN  IF search_len < pattern_len THEN -1 ELSE while(0, tail, 0, -1)

\* RingBuffer.get (ringbuffer.py 70-84): the bytes returned and the new tail
Get(rb, n) ==
    LET available == (rb.head - rb.tail) % rb.size
        m == IF n <= available THEN n ELSE available
    IN  [none |-> FALSE,
         data |-> [i \in 1..m |-> rb.buf[(rb.tail + i - 1) % rb.size]],
         tail |-> (rb.tail + m) % rb.size]

\* RingBuffer.get_until (ringbuffer.py 104-121); max_size 0 stands for None
GetUntil(rb, pattern, max_size) ==
    LET available == (rb.head - rb.tail) % rb.size
        max_search == IF max_size /= 0 /\ max_size <= available THEN max_size
                      ELSE available
        pattern_start == ring_buffer_find_pattern(rb.buf, rb.size, rb.head, rb.tail,
                                                  pattern, Len(pattern), max_search)
    IN  IF max_search < Len(pattern) \/ pattern_start = -1
        THEN [none |-> TRUE, data |-> <<>>, tail |-> rb.tail]
        ELSE Get(rb, pattern_start + Len(pattern))

\* the buffer of MaxBuffered + 3 bytes that holds content from tail on, as
\* put() leaves it after tail bytes have been put and taken out before
GetUntilCall ==
    /\ lastOp = "init"
    /\ lastOp' = "get_until"
    /\ LET size == MaxBuffered + 3
           rb == [buf |-> [pos \in 0..(size - 1) |->
                             IF (pos - args.tail) % size < Len(args.content)
                             THEN args.content[((pos - args.tail) % size) + 1]
                             ELSE 0],
                  size |-> size,
                  head |-> (args.tail + Len(args.content)) % size,
                  tail |-> args.tail]
       IN  ret' = GetUntil(rb, args.pattern, args.max_size)
    /\ UNCHANGED <<client, args, out>>

SpecRing ==
    InitCall({[content |-> c, tail |-> t, pattern |-> p, max_size |-> m] :
                    c \in {<<>>} \cup SeqsUpTo({97, 98}, MaxBuffered),
                    t \in {0, MaxBuffered},
                    p \in {<<98>>, <<97, 98>>, <<97, 97, 98>>, <<98, 98>>},
                    m \in {0, 3}})
        /\ [][GetUntilCall]_vars

(***************************************************************************)
(* What a call did, read from its events.                                  *)
(***************************************************************************)
\* the invocations of callback cb, in order
Calls(events, cb) ==
    SelectSeq(events, LAMBDA x : x.ev = "call" /\ x.pkt = cb)

\* the packets of type pkt handed to the socket, in order
Sends(events, pkt) ==
    SelectSeq(events, LAMBDA x : x.ev = "send" /\ x.pkt = pkt)

\* the message handlers invoked, in order
Deliveries(events) ==
    SelectSeq(events, LAMBDA x : x.ev = "deliver")

\* the packets read, in order
Reads(events) ==
    SelectSeq(events, LAMBDA x : x.ev = "recv")

\* the call read one packet, of this type and message id
ReadPacket(events, type, mid) ==
    /\ Len(Reads(events)) = 1
    /\ Reads(events)[1].pkt = type
    /\ Reads(events)[1].mid = mid

(***************************************************************************)
(* C1: a successful publish(qos=1) registers the handle it returns under   *)
(* its message id M.  When loop() then processes PUBACK(M), M leaves the   *)
(* inflight table, the registered handle is marked confirmed and           *)
(* on_publish fires exactly once, with M.  A PUBACK whose id is not in the *)
(* inflight table (a further PUBACK(M) among them) fires no on_publish and *)
(* changes neither the table nor any handle.                               *)
(***************************************************************************)
C1_PubackConfirmsOnce ==
    [][/\ (lastOp' = "publish" /\ ret'.h /= 0) =>
            /\ ret'.mid \in DOMAIN inflight'
            /\ inflight'[ret'.mid] = ret'.h
            /\ infos'[ret'.h].mid = ret'.mid
       /\ \A m \in RxMids :
            (lastOp' = "loop" /\ ReadPacket(out', "PUBACK", m)) =>
                IF m \in DOMAIN inflight
                THEN /\ m \notin DOMAIN inflight'
                     /\ infos'[inflight[m]].rc = RC_CONFIRMED
                     /\ Calls(out', "on_publish") = <<Called("on_publish", m, 0)>>
                ELSE /\ Calls(out', "on_publish") = <<>>
                     /\ inflight' = inflight
                     /\ infos' = infos]_vars

\* C1: loop() has processed the PUBACK of a QoS 1 publish made in this behaviour
C1_Witness ==
    /\ lastOp = "loop"
    /\ \E m \in RxMids :
          /\ ReadPacket(out, "PUBACK", m)
          /\ Calls(out, "on_publish") = <<Called("on_publish", m, 0)>>
          /\ \E h \in 1..Len(infos) :
                infos[h].mid = m /\ infos[h].qos = 1 /\ infos[h].rc = RC_CONFIRMED
    /\ allocs > 0

(***************************************************************************)
(* The steps of the outbound QoS 2 handshake.                              *)
(***************************************************************************)
\* loop() reads PUBREC(m) while m is pending
PubrecStep(m) ==
    lastOp' = "loop" /\ ReadPacket(out', "PUBREC", m) /\ m \in DOMAIN inflight

\* loop() reads PUBCOMP(m) while m is pending
PubcompStep(m) ==
    lastOp' = "loop" /\ ReadPacket(out', "PUBCOMP", m) /\ m \in DOMAIN inflight

\* what both steps do, apart from the PUBREL-sent set after PUBREC
Qos2Steps(m) ==
    /\ PubrecStep(m) =>
          /\ Len(Sends(out', "PUBREL")) = 1
          /\ Sends(out', "PUBREL")[1].mid = m
          /\ m \in DOMAIN qos2_pubrec_received'
          /\ inflight' = inflight
          /\ infos' = infos
          /\ Calls(out', "on_publish") = <<>>
    /\ PubcompStep(m) =>
          /\ m \notin DOMAIN inflight'
          /\ m \notin DOMAIN qos2_pubrec_received'
          /\ m \notin qos2_pubrel_sent'
          /\ Calls(out', "on_publish") = <<Called("on_publish", m, 0)>>

(***************************************************************************)
(* C2: while M is pending in the inflight table, processing PUBREC(M)      *)
(* hands one PUBREL(M) to the socket, records M in the PUBREC-received     *)
(* table and, if that send succeeds, in the PUBREL-sent set (a failed      *)
(* send is swallowed and leaves the set unchanged), leaves the inflight    *)
(* table and the handles unchanged and fires no on_publish; processing     *)
(* PUBCOMP(M) removes M from the inflight table and from both QoS 2        *)
(* tracking sets and fires on_publish exactly once, with M.                *)
(***************************************************************************)
C2_Qos2Handshake ==
    [][\A m \in RxMids :
          /\ Qos2Steps(m)
          /\ PubrecStep(m) =>
                qos2_pubrel_sent' = IF Sends(out', "PUBREL")[1].ok
                                    THEN qos2_pubrel_sent \cup {m}
                                    ELSE qos2_pubrel_sent]_vars

\* C2 as stated: the same, but processing PUBREC(M) always records M in the
\* PUBREL-sent set
C2_AsStated ==
    [][\A m \in RxMids :
          /\ Qos2Steps(m)
          /\ PubrecStep(m) => m \in qos2_pubrel_sent']_vars

\* C2: loop() has processed the PUBREC of a pending QoS 2 publish and sent PUBREL
C2_Witness ==
    /\ lastOp = "loop"
    /\ \E m \in RxMids :
          /\ ReadPacket(out, "PUBREC", m)
          /\ Sends(out, "PUBREL") = <<Sent("PUBREL", m, TRUE)>>
          /\ m \in DOMAIN inflight
          /\ infos[inflight[m]].qos = 2
          /\ qos2_pubrec_received[m] = inflight[m]
          /\ m \in qos2_pubrel_sent

(***************************************************************************)
(* The steps of the inbound QoS 2 handshake.                               *)
(***************************************************************************)
\* loop() reads PUBLISH(qos=2, mid=m)
InboundQos2Step(m) ==
    lastOp' = "loop" /\ ReadPacket(out', "PUBLISH", m) /\ Reads(out')[1].rc = 2

\* loop() reads PUBREL(m) after a PUBLISH(qos=2, mid=m) that no PUBREL(m) has
\* followed yet, and a handler is set for the topic of that PUBLISH
ReleaseStep(m) ==
    /\ lastOp' = "loop" /\ ReadPacket(out', "PUBREL", m)
    /\ m \in DOMAIN awaiting
    /\ (on_message \/ MatchingCallbacks(awaiting[m].topic) /= {})

(***************************************************************************)
(* C3 as stated: processing PUBLISH(qos=2, mid=m) hands PUBREC(m) to the   *)
(* socket and invokes no handler; processing the PUBREL(m) that follows    *)
(* invokes one handler, once, with the topic and payload of that PUBLISH,  *)
(* and hands PUBCOMP(m) to the socket.                                     *)
(***************************************************************************)
C3_AsStated ==
    [][\A m \in RxMids :
          /\ InboundQos2Step(m) =>
                /\ Len(Sends(out', "PUBREC")) = 1
                /\ Sends(out', "PUBREC")[1].mid = m
                /\ Deliveries(out') = <<>>
          /\ ReleaseStep(m) =>
                /\ Len(Deliveries(out')) = 1
                /\ Deliveries(out')[1].topic = awaiting[m].topic
                /\ Deliveries(out')[1].payload = awaiting[m].payload
                /\ Len(Sends(out', "PUBCOMP")) = 1
                /\ Sends(out', "PUBCOMP")[1].mid = m]_vars

(***************************************************************************)
(* C4: with keepalive > 0, when the last packet was received at least      *)
(* 1.5 x keepalive seconds ago, a loop() call on a connected client        *)
(* leaves it disconnected, fires on_disconnect once with KEEPALIVE_TIMEOUT *)
(* (and nothing else) and returns KEEPALIVE_TIMEOUT without raising.       *)
(***************************************************************************)
C4_KeepaliveTimeout ==
    [][(/\ lastOp' = "loop"
        /\ connected
        /\ keepalive > 0
        /\ 2 * (now - last_recv) * TickMs >= 3 * keepalive * 1000) =>
            /\ ~connected'
            /\ ret' = Returned(KEEPALIVE_TIMEOUT, NoMid)
            /\ out' = <<Called("on_disconnect", 0, KEEPALIVE_TIMEOUT)>>]_vars

\* C4: loop() has declared the keepalive timeout
C4_Witness ==
    /\ lastOp = "loop"
    /\ ret.rc = KEEPALIVE_TIMEOUT
    /\ ~connected
    /\ keepalive > 0
    /\ 2 * (now - last_recv) * TickMs >= 3 * keepalive * 1000

(***************************************************************************)
(* C5 as stated: after a connect() call that returns a code other than     *)
(* SUCCESS, is_connected() is false.                                       *)
(***************************************************************************)
C5_AsStated ==
    (lastOp = "connect" /\ ~ret.exc /\ ret.rc /= SUCCESS) => ~connected

(***************************************************************************)
(* What connect() did: CONNECT was sent and the one packet read after it   *)
(* is a CONNACK with reason code 0.                                        *)
(***************************************************************************)
Accepted(events) ==
    /\ Len(Reads(events)) = 1
    /\ Reads(events)[1].pkt = "CONNACK"
    /\ Reads(events)[1].rc = SUCCESS
    /\ \E i, j \in 1..Len(events) :
          i < j /\ events[i] = Sent("CONNECT", 0, TRUE) /\ events[j].ev = "recv"

\* a call of connect(), directly or by reconnect(), has returned
ConnectReturned ==
    lastOp \in {"connect", "reconnect"} /\ ~ret.exc

(***************************************************************************)
(* C6: is_connected() changes from false to true only in a connect() call  *)
(* (made directly or by reconnect()) in which CONNECT was sent and the one *)
(* packet read after it is a CONNACK with reason code 0; connect() returns *)
(* SUCCESS exactly in that case, and the client is then connected.         *)
(***************************************************************************)
C6_ConnectedOnlyByConnack ==
    [][/\ (~connected /\ connected') =>
            /\ lastOp' \in {"connect", "reconnect"}
            /\ Accepted(out')
            /\ ret'.rc = SUCCESS
       /\ ConnectReturned' =>
            /\ ret'.rc = SUCCESS <=> Accepted(out')
            /\ ret'.rc = SUCCESS => connected']_vars

\* C6: connect() has taken a disconnected client to connected
C6_Witness ==
    /\ lastOp = "connect"
    /\ connected
    /\ ret.rc = SUCCESS
    /\ Accepted(out)
    /\ Len(out) = 4

(***************************************************************************)
(* C7: every connect() call invokes on_connect exactly once, with the      *)
(* reason code it returns; when the one packet read is a CONNACK with a    *)
(* non-zero reason code, that code is the one returned and passed, and     *)
(* exactly one CONNECT was sent, after one round of socket connection.     *)
(***************************************************************************)
C7_OnConnectOnce ==
    ConnectReturned =>
        /\ Calls(out, "on_connect") = <<Called("on_connect", 0, ret.rc)>>
        /\ \A i \in 1..Len(out) :
              (out[i].ev = "recv" /\ out[i].pkt = "CONNACK" /\ out[i].rc /= SUCCESS) =>
                  /\ ret.rc = out[i].rc
                  /\ Len(Sends(out, "CONNECT")) = 1
                  /\ Len(SelectSeq(out, LAMBDA x : x.ev = "socket")) = 1
                  /\ Len(Reads(out)) = 1

\* C7: the broker has refused a connect() with NOT_AUTHORIZED
C7_Witness ==
    /\ lastOp = "connect"
    /\ ret.rc = NOT_AUTHORIZED
    /\ Calls(out, "on_connect") = <<Called("on_connect", 0, NOT_AUTHORIZED)>>
    /\ Reads(out)[1].pkt = "CONNACK"
    /\ ~connected

(***************************************************************************)
(* C8: disconnect() on a disconnected client returns SUCCESS, hands        *)
(* nothing to the socket, fires no callback and changes no state; on a     *)
(* connected client it hands one DISCONNECT to the socket, fires           *)
(* on_disconnect once and leaves the client disconnected, so that a second *)
(* disconnect() adds nothing to the first.                                 *)
(***************************************************************************)
C8_DisconnectIdempotent ==
    [][lastOp' = "disconnect" =>
          /\ ret' = Returned(SUCCESS, NoMid)
          /\ ~connected'
          /\ IF connected
             THEN /\ Len(out') = 2
                  /\ Len(Sends(out', "DISCONNECT")) = 1
                  /\ Calls(out', "on_disconnect") =
                        <<Called("on_disconnect", 0, NORMAL_DISCONNECTION)>>
             ELSE /\ out' = <<>>
                  /\ UNCHANGED <<config, host, keepalive, sock, connected, last_mid,
                                 tables, subscriptions, message_callbacks,
                                 ping_pending, last_recv, now>>]_vars

\* C8: disconnect() has been called on a client that was connected before
\* and is disconnected
C8_Witness ==
    /\ lastOp = "disconnect"
    /\ out = <<>>
    /\ host /= "none"
    /\ ~connected
    /\ sock = "none"

(***************************************************************************)
(* What publish() on a connected client does, whatever the send does, and  *)
(* when a handle becomes confirmed.                                        *)
(***************************************************************************)
\* publish() is called on a connected client with this qos
PublishStep(qos) ==
    /\ lastOp' = "publish" /\ connected
    /\ Len(Sends(out', "PUBLISH")) = 1
    /\ Sends(out', "PUBLISH")[1].rc = qos

\* the PUBLISH send of the call succeeded
PublishSent ==
    Sends(out', "PUBLISH")[1].ok

PublishSteps ==
    /\ (lastOp' = "publish" /\ connected) => \E qos \in 0..2 : PublishStep(qos)
    /\ PublishStep(0) =>
          /\ ret'.mid = 0
          /\ last_mid' = last_mid
          /\ inflight' = inflight
          /\ infos' = infos
    /\ \A qos \in 1..2 : (PublishStep(qos) /\ PublishSent) =>
          /\ ret'.mid \in 1..65535
          /\ ret'.mid /= last_mid
          /\ ret'.mid = last_mid'
          /\ ret'.h = Len(infos) + 1
          /\ infos' = Append(infos, Info(ret'.mid, RC_QUEUED, FALSE, qos))
          /\ inflight' = MapPut(inflight, ret'.mid, ret'.h)
          /\ Calls(out', "on_publish") = <<>>
          /\ ret'.rc /= RC_CONFIRMED
    /\ \A h \in 1..Len(infos) :
          (infos[h].rc /= RC_CONFIRMED /\ infos'[h].rc = RC_CONFIRMED) =>
              /\ lastOp' = "loop"
              /\ Len(Reads(out')) = 1
              /\ Reads(out')[1].pkt \in {"PUBACK", "PUBCOMP"}
              /\ Reads(out')[1].mid = infos[h].mid

\* the handle and the callback of a QoS 0 publish that is reported published
Qos0Published ==
    /\ ret'.published
    /\ ret'.rc = RC_PUBLISHED
    /\ Calls(out', "on_publish") = <<Called("on_publish", 0, 0)>>

C10_MidGenerator ==
    [][/\ last_mid' /= last_mid =>
            /\ lastOp' \in {"publish", "subscribe", "unsubscribe"}
            /\ connected
            /\ last_mid' \in 1..65535
            /\ last_mid' = IF last_mid = 65535 THEN 1 ELSE last_mid + 1
            /\ ret'.mid = last_mid'
       /\ (connected /\ lastOp' \in {"subscribe", "unsubscribe"}) =>
            last_mid' /= last_mid
       /\ \A qos \in 1..2 : PublishStep(qos) => last_mid' /= last_mid
       /\ PublishStep(0) => last_mid' = last_mid /\ ret'.mid = 0]_vars

\* C10: the generator has wrapped from 65535 to 1
C10_Witness ==
    /\ last_mid = 1
    /\ allocs = 2
    /\ lastOp \in {"publish", "subscribe", "unsubscribe"}
    /\ ret.mid = 1

(***************************************************************************)
(* C11 as stated: the id the generator returns has no entry in the         *)
(* outbound inflight table at that moment.                                 *)
(***************************************************************************)
C11_AsStated ==
    [][last_mid' /= last_mid => last_mid' \notin DOMAIN inflight]_vars

(***************************************************************************)
(* C12 as stated: an entry leaves the outbound inflight table only in a    *)
(* loop() call that reads the acknowledgement matching its QoS with its    *)
(* mid and fires on_publish with it: PUBACK for an entry of a QoS 1        *)
(* publish, PUBCOMP for an entry of a QoS 2 publish.                       *)
(***************************************************************************)
C12_AsStated ==
    [][\A m \in DOMAIN inflight :
          m \notin DOMAIN inflight' =>
              /\ lastOp' = "loop"
              /\ ReadPacket(out', IF infos[inflight[m]].qos = 1 THEN "PUBACK"
                                  ELSE "PUBCOMP", m)
              /\ Calls(out', "on_publish") = <<Called("on_publish", m, 0)>>]_vars

(***************************************************************************)
(* C13: a loop() call that reads PUBREL(m) hands exactly one PUBCOMP(m) to *)
(* the socket whether or not m is in the inbound table, invokes no handler *)
(* when m is not in the table and at most one (with the stored message of  *)
(* m) when it is, and leaves m out of the table; a loop() call that reads  *)
(* PUBLISH(qos=2, mid=m) invokes no handler.  So the deliveries for m      *)
(* never outnumber the PUBREL(m) processed.                                *)
(***************************************************************************)
C13_PubrelAnswered ==
    [][\A m \in RxMids :
          /\ (lastOp' = "loop" /\ ReadPacket(out', "PUBREL", m)) =>
                /\ Len(Sends(out', "PUBCOMP")) = 1
                /\ Sends(out', "PUBCOMP")[1].mid = m
                /\ m \notin DOMAIN in_packet => Deliveries(out') = <<>>
                /\ Len(Deliveries(out')) <= 1
                /\ \A i \in 1..Len(Deliveries(out')) :
                      /\ m \in DOMAIN in_packet
                      /\ Deliveries(out')[i].mid = m
                      /\ Deliveries(out')[i].topic = in_packet[m].topic
                      /\ Deliveries(out')[i].payload = in_packet[m].payload
                /\ m \notin DOMAIN in_packet'
          /\ InboundQos2Step(m) => Deliveries(out') = <<>>]_vars

\* C13: loop() has read a PUBREL whose mid had no stored message (on_message
\* is set and yet nothing was delivered) and handed the PUBCOMP to the socket
C13_Witness ==
    /\ lastOp = "loop"
    /\ on_message
    /\ \E m \in RxMids :
          /\ ReadPacket(out, "PUBREL", m)
          /\ Deliveries(out) = <<>>
          /\ Len(Sends(out, "PUBCOMP")) = 1
          /\ Sends(out, "PUBCOMP")[1].mid = m

(***************************************************************************)
(* C14 as stated: in a loop() call that reads PUBLISH(qos=1, mid=m) one    *)
(* PUBACK(m) is handed to the socket, and every handler invoked for the    *)
(* message is invoked before it.                                           *)
(***************************************************************************)
C14_AsStated ==
    [][\A m \in RxMids :
          (lastOp' = "loop" /\ ReadPacket(out', "PUBLISH", m) /\ Reads(out')[1].rc = 1) =>
              /\ Len(Sends(out', "PUBACK")) = 1
              /\ Sends(out', "PUBACK")[1].mid = m
              /\ \A i, j \in 1..Len(out') :
                    (out'[i].ev = "deliver" /\ out'[j].ev = "send" /\ out'[j].pkt = "PUBACK")
                        => i < j]_vars

(***************************************************************************)
(* C15 as stated: after a loop() call that reads PUBLISH(qos=2, mid=m) the *)
(* inbound table holds the message of that PUBLISH under m, whether or not *)
(* the PUBREC send raised.                                                 *)
(***************************************************************************)
C15_AsStated ==
    [][\A m \in RxMids :
          InboundQos2Step(m) =>
              /\ m \in DOMAIN in_packet'
              /\ in_packet'[m].topic = Reads(out')[1].topic
              /\ in_packet'[m].payload = Reads(out')[1].payload]_vars

(***************************************************************************)
(* C16: in a loop() call on a connected client with keepalive > 0, when    *)
(* the last packet was received at least keepalive and less than           *)
(* 1.5 x keepalive seconds ago and no ping is outstanding, exactly one     *)
(* PINGREQ is handed to the socket and the outstanding flag is set (it is  *)
(* still set after the call unless the call went on to read a PINGRESP);   *)
(* no call hands over a PINGREQ while the flag is set; and a loop() call   *)
(* that reads PINGRESP leaves the flag cleared.                            *)
(***************************************************************************)
C16_PingWhenDue ==
    [][/\ (/\ lastOp' = "loop"
           /\ connected
           /\ keepalive > 0
           /\ (now - last_recv) * TickMs >= keepalive * 1000
           /\ 2 * (now - last_recv) * TickMs < 3 * keepalive * 1000
           /\ ~ping_pending)
          => /\ Len(Sends(out', "PINGREQ")) = 1
             /\ ping_pending' = ~ReadPacket(out', "PINGRESP", 0)
       /\ ping_pending => Sends(out', "PINGREQ") = <<>>
       /\ (lastOp' = "loop" /\ ReadPacket(out', "PINGRESP", 0)) => ~ping_pending']_vars

\* C16: loop() has sent the PINGREQ that was due and the ping is outstanding
C16_Witness ==
    /\ lastOp = "loop"
    /\ connected
    /\ keepalive > 0
    /\ Sends(out, "PINGREQ") = <<Sent("PINGREQ", 0, TRUE)>>
    /\ ping_pending

(***************************************************************************)
(* C17: a loop() call that reads a DISCONNECT frame leaves the client      *)
(* disconnected and fires on_disconnect exactly once, with the reason code *)
(* the frame carries: the first byte of its body, NORMAL_DISCONNECTION     *)
(* when the body is empty.                                                 *)
(***************************************************************************)
C17_ServerDisconnect ==
    [][(/\ lastOp' = "loop"
        /\ Len(Reads(out')) = 1
        /\ Reads(out')[1].wire = "DISCONNECT")
          => /\ ~connected'
             /\ Calls(out', "on_disconnect") =
                  <<Called("on_disconnect", 0,
                           IF Reads(out')[1].body = <<>> THEN 0
                           ELSE Reads(out')[1].body[1])>>]_vars

\* C17: loop() has read a DISCONNECT that carries NOT_AUTHORIZED and reported it
C17_Witness ==
    /\ lastOp = "loop"
    /\ ~connected
    /\ Len(Reads(out)) = 1
    /\ Reads(out)[1].wire = "DISCONNECT"
    /\ Reads(out)[1].body = <<135>>
    /\ Calls(out, "on_disconnect") = <<Called("on_disconnect", 0, 135)>>

(***************************************************************************)
(* C18 as stated: a loop() call on a connected client that reads a         *)
(* complete frame of a type the client does not decode leaves the client   *)
(* connected, does not fire on_disconnect and returns SUCCESS.             *)
(***************************************************************************)
C18_AsStated ==
    [][(/\ lastOp' = "loop"
        /\ connected
        /\ Len(Reads(out')) = 1
        /\ Reads(out')[1].wire \in {"AUTH", "PINGREQ"})
          => /\ connected'
             /\ Calls(out', "on_disconnect") = <<>>
             /\ ret' = Returned(0, NoMid)]_vars

(***************************************************************************)
(* C19 as stated: connect() and loop() report a failure of the network     *)
(* (DNS, socket connect, send, the peer closing the connection in a read)  *)
(* as NETWORK_ERROR (255) or UNSPECIFIED_ERROR (128), and a failure of the *)
(* protocol (a malformed or truncated packet, a packet other than CONNACK  *)
(* in answer to CONNECT) as PROTOCOL_ERROR (130) or MALFORMED_PACKET (129).*)
(***************************************************************************)
C19_AsStated ==
    [][lastOp' \in {"connect", "loop"} =>
          /\ (\/ (lastOp' = "connect" /\ \A i \in 1..Len(out') : out'[i].ev /= "socket")
              \/ \E i \in 1..Len(out') :
                    \/ out'[i].ev = "socket" /\ ~out'[i].ok
                    \/ out'[i].ev = "send" /\ out'[i].pkt = "CONNECT" /\ ~out'[i].ok
                    \/ out'[i].ev = "recv" /\ out'[i].wire = "closed")
                => ret'.rc \in {255, 128}
          /\ (\E i \in 1..Len(out') :
                    \/ out'[i].ev = "recv" /\ out'[i].wire = "malformed"
                    \/ /\ lastOp' = "connect" /\ out'[i].ev = "recv"
                       /\ out'[i].ok /\ out'[i].pkt /= "CONNACK")
                => ret'.rc \in {130, 129}]_vars

(***************************************************************************)
(* C20: a publish(), subscribe() or unsubscribe() call whose send raises   *)
(* returns without raising and leaves the client disconnected; subscribe   *)
(* and unsubscribe return UNSPECIFIED_ERROR (128), publish a handle that   *)
(* is not marked published; and the call changes neither the inflight      *)
(* table (nor the handles in it) nor the subscription registry (nor the    *)
(* callbacks registered per filter).                                       *)
(***************************************************************************)
C20_SendFailureContained ==
    [][(/\ lastOp' \in {"publish", "subscribe", "unsubscribe"}
        /\ \E i \in 1..Len(out') : out'[i].ev = "send" /\ ~out'[i].ok)
          => /\ ~ret'.exc
             /\ ~connected'
             /\ lastOp' \in {"subscribe", "unsubscribe"} => ret'.rc = 128
             /\ lastOp' = "publish" => ~ret'.published /\ ret'.rc = 0
             /\ inflight' = inflight
             /\ infos' = infos
             /\ subscriptions' = subscriptions
             /\ message_callbacks' = message_callbacks]_vars

\* C20: an unsubscribe() whose send raised has returned UNSPECIFIED_ERROR,
\* the client is disconnected and the filter is still in the registry
C20_Witness ==
    /\ lastOp = "unsubscribe"
    /\ ~connected
    /\ ~ret.exc
    /\ ret.rc = 128
    /\ Len(Sends(out, "UNSUBSCRIBE")) = 1
    /\ ~Sends(out, "UNSUBSCRIBE")[1].ok
    /\ DOMAIN subscriptions /= {}

(***************************************************************************)
(* C21: on a client that is not connected, loop(), publish(), subscribe()  *)
(* and unsubscribe() return an error at once - loop a code other than      *)
(* SUCCESS (0), publish a handle with mid 0 that is neither published nor  *)
(* registered, subscribe and unsubscribe a code other than SUCCESS with    *)
(* mid None - without raising, and change nothing: nothing is handed to    *)
(* the socket, nothing is read, no callback is invoked, the socket is not  *)
(* reopened, no message id is drawn and every field and table of the       *)
(* client is as before.                                                    *)
(***************************************************************************)
C21_DisconnectedCallsAreInert ==
    [][(~connected /\ lastOp' \in {"loop", "publish", "subscribe", "unsubscribe"})
          => /\ out' = <<>>
             /\ ~ret'.exc
             /\ lastOp' = "publish" => ret'.mid = 0 /\ ~ret'.published /\ ret'.h = 0
             /\ lastOp' /= "publish" => ret'.rc /= 0
             /\ lastOp' \in {"subscribe", "unsubscribe"} => ret'.mid = NoMid
             /\ UNCHANGED <<protocol, ssl_context, on_message, host, keepalive, sock,
                            connected, last_mid, infos, inflight,
                            qos2_pubrec_received, qos2_pubrel_sent, in_packet,
                            subscriptions, message_callbacks, ping_pending,
                            last_recv, allocs>>]_vars

\* C21: subscribe() was called on a client that is not connected, after the
\* client had drawn a message id, and returned NOT_AUTHORIZED (135) with no mid
C21_Witness ==
    /\ lastOp = "subscribe"
    /\ ~connected
    /\ out = <<>>
    /\ ret = Returned(135, NoMid)
    /\ last_mid > 0

(***************************************************************************)
(* C22 as stated: a filter whose last level is "#" matches every topic     *)
(* whose leading levels equal the levels of the filter before the "#",     *)
(* the topic with no level after them included ("a/#" matches "a").        *)
(***************************************************************************)
C22_AsStated ==
    lastOp = "_topic_matches" =>
        LET pl == args.pattern_levels
            tl == args.topic_levels
        IN  (/\ pl[Len(pl)] = <<"#">>
             /\ Len(tl) >= Len(pl) - 1
             /\ \A i \in 1..(Len(pl) - 1) : pl[i] = tl[i])
                => ret = TRUE

(***************************************************************************)
(* C23: a filter without a "#" level matches a topic exactly when both     *)
(* have the same number of levels and each level of the filter is "+" or   *)
(* equal to the level of the topic at its place.                           *)
(***************************************************************************)
C23_LevelByLevel ==
    lastOp = "_topic_matches" =>
        LET pl == args.pattern_levels
            tl == args.topic_levels
        IN  (\A i \in 1..Len(pl) : pl[i] /= <<"#">>)
                => ret = (/\ Len(pl) = Len(tl)
                          /\ \A i \in 1..Len(pl) : pl[i] = <<"+">> \/ pl[i] = tl[i])

\* C23: "a/+/a" has been matched against "a/b/a", and matches
C23_Witness ==
    /\ lastOp = "_topic_matches"
    /\ args.pattern = <<"a", "/", "+", "/", "a">>
    /\ args.topic = <<"a", "/", "b", "/", "a">>
    /\ ret = TRUE

(***************************************************************************)
(* C24 as stated: a filter with "#" at a level that is not its last        *)
(* matches no topic through that "#" (the topics here have no level "#"):  *)
(* "a/#/a" does not match "a/b".                                           *)
(***************************************************************************)
C24_AsStated ==
    lastOp = "_topic_matches" =>
        LET pl == args.pattern_levels
        IN  (\E i \in 1..(Len(pl) - 1) : pl[i] = <<"#">>) => ret = FALSE

(***************************************************************************)
(* C25: for every v in 0..268435455, decoding the variable-length encoding *)
(* of v from offset 0 gives (v, n) without an error, where n is the number *)
(* of bytes of the encoding and 1 <= n <= 4.                               *)
(***************************************************************************)
C25_VarintRoundTrip ==
    lastOp = "_encode_variable_length" =>
        /\ ~ret.decoded.exc
        /\ ret.decoded.value = args.value
        /\ ret.decoded.offset = Len(ret.data)
        /\ Len(ret.data) >= 1
        /\ Len(ret.data) <= 4
        /\ \A i \in 1..Len(ret.data) : ret.data[i] \in 0..255

\* C25: the largest value, 268435455, has been encoded in four bytes and
\* decoded back
C25_Witness ==
    /\ lastOp = "_encode_variable_length"
    /\ args.value = 268435455
    /\ ret.data = <<255, 255, 255, 127>>
    /\ ret.decoded = Decoded(268435455, 4)

(***************************************************************************)
(* C26: a bag built by set() with one value of each scalar type and three  *)
(* USER_PROPERTY pairs, packed and unpacked from offset 0, gives a bag     *)
(* with the same ids and the same value under each id, the three user      *)
(* pairs in the order of their set() calls, and the offset returned is the *)
(* length of the packed bytes.                                             *)
(***************************************************************************)
C26_PropertiesRoundTrip ==
    lastOp = "Properties.pack" =>
        LET got == ret.unpacked.props
            users == SelectSeq(args.calls, LAMBDA c : c[1] = 38)
            scalars == SelectSeq(args.calls, LAMBDA c : c[1] /= 38)
        IN  /\ ret.unpacked.offset = Len(ret.data)
            /\ {got[i].id : i \in 1..Len(got)} = {args.calls[i][1] : i \in 1..Len(args.calls)}
            /\ \A i, j \in 1..Len(got) : got[i].id = got[j].id => i = j
            /\ \A i \in 1..Len(got) :
                  IF got[i].id = 38
                  THEN got[i].value = [j \in 1..3 |-> users[j][2]]
                  ELSE \E j \in 1..Len(scalars) :
                          scalars[j][1] = got[i].id /\ scalars[j][2] = got[i].value

\* C26: a bag with the seven ids has been packed and unpacked, its TOPIC_ALIAS
\* 258 and its three user pairs, the second unlike the others, read back
C26_Witness ==
    /\ lastOp = "Properties.pack"
    /\ Len(ret.unpacked.props) = 7
    /\ \E i \in 1..7 : ret.unpacked.props[i] = [id |-> 35, value |-> 258]
    /\ \E i \in 1..7 :
          /\ ret.unpacked.props[i].id = 38
          /\ ret.unpacked.props[i].value =
                << <<<<107>>, <<118>>>>, <<<<107>>, <<>>>>, <<<<107>>, <<118>>>> >>
    /\ ret.unpacked.offset = Len(ret.data)

C28_AsStated ==
    [][\A m \in DOMAIN inflight :
          (/\ infos[inflight[m]].qos = 2
           /\ \/ m \notin DOMAIN inflight'
              \/ \E i \in 1..Len(out') :
                    out'[i].ev = "call" /\ out'[i].pkt = "on_publish" /\ out'[i].mid = m)
            => /\ m \in DOMAIN qos2_pubrec_received
               /\ qos2_pubrec_received[m] = inflight[m]
               /\ m \in qos2_pubrel_sent]_vars

(***************************************************************************)
(* C29 as stated: every call in which a connected client becomes           *)
(* disconnected fires on_disconnect exactly once.                          *)
(***************************************************************************)
C29_AsStated ==
    [][(connected /\ ~connected') => Len(Calls(out', "on_disconnect")) = 1]_vars

(***************************************************************************)
(* C30 as stated: a loop() call in which a connected client becomes        *)
(* disconnected returns a reason code other than SUCCESS (0); so after a   *)
(* loop() that was entered connected and returned SUCCESS the client is    *)
(* connected.                                                              *)
(***************************************************************************)
C30_AsStated ==
    [][(lastOp' = "loop" /\ connected /\ ~connected') => ret'.rc /= 0]_vars

(***************************************************************************)
(* C31 as stated: a connect() call, made directly or by reconnect(), that  *)
(* returns SUCCESS leaves no ping outstanding, so that the new connection  *)
(* starts with the outstanding-ping flag cleared.                          *)
(***************************************************************************)
C31_AsStated ==
    (ConnectReturned /\ ret.rc = SUCCESS /\ Accepted(out)) => ~ping_pending

(***************************************************************************)
(* C32 as stated: a call that takes the client from connected to           *)
(* disconnected leaves the outbound inflight table and both QoS 2 tracking *)
(* sets unchanged, and a connect() or reconnect() that returns SUCCESS     *)
(* leaves them and the mid counter unchanged.                              *)
(***************************************************************************)
C32_AsStated ==
    [][/\ (connected /\ ~connected') =>
            UNCHANGED <<inflight, qos2_pubrec_received, qos2_pubrel_sent>>
       /\ (ConnectReturned' /\ ret'.rc = SUCCESS) =>
            UNCHANGED <<inflight, qos2_pubrec_received, qos2_pubrel_sent, last_mid>>]_vars

\* the same, for every call but a loop() that reads an acknowledgement after
\* its PINGREQ could not be sent
C32_ExceptAcknowledged ==
    [][/\ (connected /\ ~connected' /\ ~\E i \in 1..Len(out') :
                out'[i].ev = "recv" /\ out'[i].pkt \in {"PUBACK", "PUBREC", "PUBCOMP"}) =>
            UNCHANGED <<inflight, qos2_pubrec_received, qos2_pubrel_sent>>
       /\ (ConnectReturned' /\ ret'.rc = SUCCESS) =>
            UNCHANGED <<inflight, qos2_pubrec_received, qos2_pubrel_sent, last_mid>>]_vars

(***************************************************************************)
(* C33: a subscribe() whose SUBSCRIBE send succeeds leaves the registry    *)
(* mapping the requested filter to the requested qos, whatever it held for *)
(* that filter before, and every other filter as it was; an unsubscribe()  *)
(* whose UNSUBSCRIBE send succeeds leaves the named filter absent and the  *)
(* others as they were; and no other step, the reading of a SUBACK or      *)
(* UNSUBACK included, changes the registry.                                *)
(***************************************************************************)
C33_RegistryFollowsRequests ==
    [][LET subs == Sends(out', "SUBSCRIBE")
           unsubs == Sends(out', "UNSUBSCRIBE")
           others(t) == \A f \in (DOMAIN subscriptions) \ {t} :
                            f \in DOMAIN subscriptions' /\ subscriptions'[f] = subscriptions[f]
       IN  IF lastOp' = "subscribe" /\ Len(subs) = 1 /\ subs[1].ok
           THEN /\ DOMAIN subscriptions' = (DOMAIN subscriptions) \cup {subs[1].topic}
                /\ subscriptions'[subs[1].topic] = subs[1].rc
                /\ others(subs[1].topic)
           ELSE IF lastOp' = "unsubscribe" /\ Len(unsubs) = 1 /\ unsubs[1].ok
           THEN /\ DOMAIN subscriptions' = (DOMAIN subscriptions) \ {unsubs[1].topic}
                /\ others(unsubs[1].topic)
           ELSE subscriptions' = subscriptions]_vars

\* C33: subscribe() has sent a SUBSCRIBE for a filter with qos 1 and the
\* registry holds the filter with that qos
C33_Witness ==
    /\ lastOp = "subscribe"
    /\ Len(Sends(out, "SUBSCRIBE")) = 1
    /\ Sends(out, "SUBSCRIBE")[1].ok
    /\ Sends(out, "SUBSCRIBE")[1].rc = 1
    /\ Sends(out, "SUBSCRIBE")[1].topic \in DOMAIN subscriptions
    /\ subscriptions[Sends(out, "SUBSCRIBE")[1].topic] = 1
    /\ allocs = MaxAlloc

(***************************************************************************)
(* C34: a loop() call invokes at most one message handler; one that reads  *)
(* a PUBLISH of QoS 0 or 1 invokes, with the topic and payload of the      *)
(* packet, the callback of a registered pattern that matches the topic     *)
(* when there is one, else on_message when it is set, else nothing; the    *)
(* subscription registry has no part in it: the message is handled so when *)
(* no subscribed filter matches its topic, the registry being empty        *)
(* included.                                                               *)
(***************************************************************************)
C34_RoutingIgnoresRegistry ==
    [][lastOp' = "loop" =>
         LET des == Deliveries(out')
             rds == Reads(out')
             registered(t) == {i \in 1..Len(message_callbacks) :
                                  TopicMatches(message_callbacks[i], t)}
         IN  /\ Len(des) <= 1
             /\ (Len(rds) = 1 /\ rds[1].pkt = "PUBLISH" /\ rds[1].rc < 2) =>
                   IF registered(rds[1].topic) /= {}
                   THEN /\ Len(des) = 1
                        /\ des[1].pkt = "callback"
                        /\ \E i \in registered(rds[1].topic) :
                              des[1].pattern = message_callbacks[i]
                        /\ des[1].topic = rds[1].topic
                        /\ des[1].payload = rds[1].payload
                   ELSE IF on_message
                   THEN /\ Len(des) = 1
                        /\ des[1].pkt = "on_message"
                        /\ des[1].topic = rds[1].topic
                        /\ des[1].payload = rds[1].payload
                   ELSE des = <<>>]_vars

\* C34: a message has been handed to a callback although the registry holds
\* a filter and none that matches the topic of the message
C34_Witness ==
    /\ lastOp = "loop"
    /\ Len(Deliveries(out)) = 1
    /\ Deliveries(out)[1].pkt = "callback"
    /\ subscriptions /= EmptyMap
    /\ \A f \in DOMAIN subscriptions : ~TopicMatches(f, Deliveries(out)[1].topic)

C36_SendsAllOnce ==
    lastOp = "send_packet_to_socket" =>
        LET s == args.script
            fatal(j) == s[j] = 0 \/ (s[j] < 0 /\ s[j] /= -11 /\ s[j] /= -115)
            RECURSIVE accepted(_)
            accepted(j) == IF j = 0 THEN 0
                           ELSE accepted(j - 1) + (IF s[j] > 0 THEN s[j] ELSE 0)
        IN  /\ Len(ret.wire) <= Len(ret.data)
            /\ \A i \in 1..Len(ret.wire) : ret.wire[i] = ret.data[i]
            /\ ~ret.raised => ret.wire = ret.data
            /\ ret.raised <=>
                  \E j \in 1..Len(s) :
                      /\ fatal(j)
                      /\ \A i \in 1..(j - 1) : ~fatal(i)
                      /\ accepted(j - 1) < Len(ret.data)
            /\ ret.raised => Len(ret.wire) < Len(ret.data)

\* C36: a PUBLISH of 9 bytes has been sent through a socket that accepted
\* 2 bytes, raised EAGAIN and accepted 4 bytes, and after them the rest
C36_Witness ==
    /\ lastOp = "send_packet_to_socket"
    /\ args.script = <<2, -11, 4>>
    /\ Len(ret.data) = 9
    /\ ~ret.raised
    /\ ret.wire = ret.data

(***************************************************************************)
(* C37: Properties.unpack of a block that holds a property with an unknown *)
(* identifier returns the properties that stand before it in the block,    *)
(* each under its id with its value, and none of those after it; of a      *)
(* block without one it returns them all.                                  *)
(***************************************************************************)
C37_UnknownStopsParsing ==
    lastOp = "Properties.unpack" =>
        LET got == ret.unpacked.props
            entries(calls) == [i \in 1..Len(calls) |->
                                  [id |-> calls[i][1],
                                   value |-> IF calls[i][1] = 38 THEN <<calls[i][2]>>
                                             ELSE calls[i][2]]]
        IN  IF args.unknown /= <<>>
            THEN got = entries(args.before)
            ELSE got = entries(args.before) \o entries(args.after)

\* C37: a block with TOPIC_ALIAS, then identifier 127, then
\* MESSAGE_EXPIRY_INTERVAL has been unpacked to TOPIC_ALIAS alone
C37_Witness ==
    /\ lastOp = "Properties.unpack"
    /\ args.unknown = <<127, 1>>
    /\ args.after = << <<2, 60>> >>
    /\ ret.unpacked.props = <<[id |-> 35, value |-> 258]>>

(***************************************************************************)
(* C38 as stated: the offset Properties.unpack returns is the offset of    *)
(* the first byte after the block, the start plus the length of the length *)
(* field plus the length it declares, whether or not the block holds an    *)
(* unknown identifier; so the payload of the PUBLISH unpacked from the     *)
(* same bytes is the payload the broker sent.                              *)
(***************************************************************************)
C38_AsStated ==
    lastOp = "Properties.unpack" =>
        /\ ret.unpacked.offset =
              ret.start + (IF ret.block < 128 THEN 1 ELSE 2) + ret.block
        /\ ret.publish.payload = args.payload

(***************************************************************************)
(* C39: _decode_variable_length returns a value exactly when one of the    *)
(* first four bytes from the offset is in the buffer, has its continuation *)
(* bit clear and has only bytes with the bit set before it; it then        *)
(* returns the offset after that byte, at most 4 beyond the start, and the *)
(* value of the bytes up to it.  In every other case (the fourth byte has  *)
(* the bit set, or the buffer ends first) it raises.                       *)
(***************************************************************************)
C39_MalformedVarintRaises ==
    lastOp = "_decode_variable_length" =>
        LET d == args.data
            o == args.offset
            last(k) == /\ o + k <= Len(d)
                       /\ d[o + k] < 128
                       /\ \A i \in 1..(k - 1) : d[o + i] >= 128
            RECURSIVE value(_)
            value(k) == IF k = 0 THEN 0
                        ELSE value(k - 1) + (d[o + k] % 128) * (128 ^ (k - 1))
        IN  /\ ret.exc <=> ~\E k \in 1..4 : last(k)
            /\ ~ret.exc =>
                  /\ ret.offset - o \in 1..4
                  /\ last(ret.offset - o)
                  /\ ret.value = value(ret.offset - o)

\* C39: a buffer whose first four bytes all carry the continuation bit,
\* with a byte without it behind them, has been refused
C39_Witness ==
    /\ lastOp = "_decode_variable_length"
    /\ args = [data |-> <<128, 255, 128, 128, 1>>, offset |-> 0]
    /\ ret.exc

(***************************************************************************)
(* C40 as stated: when the pattern occurs within the bytes searched (the   *)
(* first max_size of the buffered bytes, all of them without max_size)     *)
(* get_until returns the buffered bytes up to and including its first      *)
(* occurrence and moves the tail past them; when it does not occur there   *)
(* get_until returns None and leaves the tail where it was.                *)
(***************************************************************************)
C40_AsStated ==
    lastOp = "get_until" =>
        LET c == args.content
            p == args.pattern
            searched == IF args.max_size /= 0 /\ args.max_size <= Len(c)
                        THEN args.max_size ELSE Len(c)
            occurs(k) == /\ k + Len(p) <= searched
                         /\ \A i \in 1..Len(p) : c[k + i] = p[i]
            first == CHOOSE k \in 0..searched :
                        occurs(k) /\ \A j \in 0..(k - 1) : ~occurs(j)
        IN  IF \E k \in 0..searched : occurs(k)
            THEN /\ ~ret.none
                 /\ ret.data = SubSeq(c, 1, first + Len(p))
                 /\ ret.tail = (args.tail + first + Len(p)) % (MaxBuffered + 3)
            ELSE ret.none /\ ret.tail = args.tail

====
